---- MODULE Spec2Model ----
(***************************************************************************)
(* A model of the process and pipe subsystems of libuv (Julia fork):       *)
(*   src/unix/process.c  uv_spawn, uv__chld (SIGCHLD reaper), uv_kill,     *)
(*                       uv__process_close                                 *)
(*   src/win/process.c   uv_spawn, spawn_failure, exit_wait_callback,      *)
(*                       uv_process_proc_exit, uv_process_kill, close path *)
(*   src/unix/pipe.c     uv_pipe_bind, uv__pipe_close                      *)
(* The variable `platform' is the build the program was compiled for.      *)
(* Operating-system calls (fork, waitpid, kill, CreateProcessW,            *)
(* TerminateProcess, GetExitCodeProcess, bind, unlink, close) are modelled *)
(* by their documented effect on an explicit OS state.                     *)
(***************************************************************************)
EXTENDS Integers, Sequences, FiniteSets, TLC

\* ------------------------------------------------------------- bounds
NumHandles == 2
MaxPid == 3
\* pipe handles of this process, the longest name a caller passes to uv_pipe_bind
\* and sizeof(saddr.sun_path) (108 on Linux), scaled down so that MaxNameLen
\* still reaches and exceeds it
NumPipes == 2
MaxNameLen == 4
SunPathSize == 3
\* the connections a listening pipe is offered
MaxBacklog == 2
\* the highest descriptor a process can have open, and the most stdio
\* containers a caller passes
MaxFd == 3
MaxStdio == 3
\* the longest argument and the most arguments after the program name
MaxArgLen == 3
MaxArgs == 2
\* the most entries of a caller's environment
MaxEnv == 3
NumWorkers == 2
MaxFileLen == 3
MaxPathLen == 3

Handles == 1..NumHandles
Pids == 1..MaxPid

\* --------------------------------------------------- program constants
\* ARRAY_SIZE(loop->process_handles): the number of pid-hashed queues.
H == 2

ENOENT == 2
EBADF == 9
ESRCH == 3
EAGAIN == 11
ENOMEM == 12
EACCES == 13
EINVAL == 22
EMFILE == 24
EADDRINUSE == 98
ECONNREFUSED == 111

SIGHUP == 1
SIGINT == 2
SIGKILL == 9
SIGTERM == 15

\* Windows: GetExitCodeProcess reports this for a process that has not exited.
STILL_ACTIVE == 259
\* Windows: ERROR_FILE_NOT_FOUND, a GetLastError() value of a failed CreateProcessW
ERROR_FILE_NOT_FOUND == 2
\* the flags of uv_pipe_init and the handle flags they become
UV_PIPE_IPC == 1
UV_PIPE_SPAWN_SAFE == 2
UV_PIPE_READABLE == 4
UV_PIPE_WRITEABLE == 8
UV_CLOSING == 1
UV_CLOSED == 2
UV_STREAM_READABLE == 32
UV_STREAM_WRITABLE == 64
UV_HANDLE_PIPE_IPC == 128
UV_HANDLE_PIPE_SPAWN_SAFE == 256

\* Exit codes a child may pass to exit()/ExitProcess().
ExitCodes == {0, STILL_ACTIVE}
\* Signals the user passes to uv_process_kill: the probe, one that win uv__kill
\* maps to TerminateProcess and one it does not support.
KillSignals == {0, SIGHUP, SIGTERM}

VARIABLES
  platform,         \* "unix" or "win"
  proc,             \* uv_process_t fields, per handle
  sp,               \* per handle: how its uv_spawn call ended (res), its return value
                    \* (ret) and the error the child or CreateProcessW hit (cerr)
  process_handles,  \* unix: loop->process_handles[0..H-1], each a queue of handles
  chld,             \* unix: position of a running uv__chld: [phase, i, pending]
  sigchld,          \* unix: a SIGCHLD is pending for the loop's child_watcher
  child_watcher,    \* unix: loop->child_watcher is started
  os,               \* OS process table: pid -> [st, status]
  cb,               \* per handle: the exit callback's invocations and last arguments
  incb,             \* the handle whose exit callback is running on the loop thread, or 0
  posted,           \* win: requests posted to the loop's completion port
  pool,             \* win: jobs pending on the thread pool
  kill_log,         \* the last uv_process_kill call: [signum, ret, err]
  fate,             \* per handle: how its child ended, as the OS saw it (kind, val), and
                    \* on Windows the signal of the last uv_process_kill call that succeeded (oksig)
  pipe,             \* uv_pipe_t fields, per pipe handle: io_watcher.fd (fd), pipe_fname,
                    \* and how far uv__pipe_close has run (close_pc)
  fs,               \* the filesystem: path -> the socket node there, who created it
  bind_log,         \* the last uv_pipe_bind call: [p, name, ret]
  sock,             \* the kernel's side of each pipe's socket: listening, the
                    \* connections waiting in its backlog, the state of its connect
  stdio,            \* the stdio set-up of one uv_spawn call: the parent's open
                    \* descriptors, the caller's stdio containers, and the child's
                    \* descriptor table as uv__process_child_init builds it
  cmd,              \* win: the argument vector of one uv_spawn call, the command
                    \* line make_program_args builds from it, and the argv the
                    \* child gets from CommandLineToArgvW
  envb,             \* win: the env of one uv_spawn call, the environment of the
                    \* calling process, and the block make_program_env builds
  fk,               \* unix: one thread's uv_spawn calls around the fork: its signal
                    \* mask, the loop's cloexec_lock, the child, the worker threads
  srch,             \* win: one search_path call: the file, PATH, the files that
                    \* exist, and how the search ended
  rq,               \* unix: the process queues, the reaper's pending list and the
                    \* handles' queue nodes as linked lists, and where uv__chld is
  sio,              \* unix: one uv_spawn call in the parent: the caller's stdio
                    \* containers, the pipes array, the clean-up of the error label
  lnk,              \* one uv_pipe_link call: the flags its two pipes were initialised
                    \* with, the pair of descriptors, the two pipes and the result
  plog              \* per pipe: the descriptors accept returned, the connection and
                    \* connect callbacks made, the results of the last calls

procvars == <<platform, proc, sp, process_handles, chld, sigchld, child_watcher,
              os, cb, incb, posted, pool, kill_log, fate>>
pipevars == <<pipe, fs, bind_log>>
connvars == <<sock, plog>>
\* what no operation on a process handle touches
\* what uv_spawn prepares for the child before it starts the program
prepvars == <<stdio, cmd, envb>>
\* what no step of that preparation touches
linkvars == <<lnk>>
forkvars == <<fk>>
searchvars == <<srch>>
queuevars == <<rq>>
siovars == <<sio>>
nonprepvars == <<procvars, pipevars, connvars, linkvars, forkvars, searchvars, queuevars, siovars>>
nonprocvars == <<pipevars, connvars, prepvars, linkvars, forkvars, searchvars, queuevars, siovars>>
\* what no operation on a pipe touches
nonpipevars == <<procvars, prepvars, linkvars, forkvars, searchvars, queuevars, siovars>>
\* what uv_pipe_link does not touch
nonlinkvars == <<procvars, pipevars, connvars, prepvars, forkvars, searchvars, queuevars, siovars>>
nonforkvars == <<procvars, pipevars, connvars, prepvars, linkvars, searchvars, queuevars, siovars>>
nonsearchvars == <<procvars, pipevars, connvars, prepvars, linkvars, forkvars, queuevars, siovars>>
nonsiovars == <<procvars, pipevars, connvars, prepvars, linkvars, forkvars, searchvars, queuevars>>
nonqueuevars == <<procvars, pipevars, connvars, prepvars, linkvars, forkvars, searchvars, siovars>>

\* ------------------------------------------------------------ helpers
RECURSIVE SelectSeqNot(_, _)
\* the sequence s without the element x
SelectSeqNot(s, x) ==
  IF s = <<>> THEN <<>>
  ELSE IF Head(s) = x THEN SelectSeqNot(Tail(s), x)
       ELSE <<Head(s)>> \o SelectSeqNot(Tail(s), x)

InSeq(s, x) == \E k \in 1..Len(s) : s[k] = x

\* INVALID_HANDLE_VALUE, and the unset pid
INVALID == 0

\* the fields after uv__handle_init / uv_process_init
ProcInit ==
  [init |-> FALSE, pid |-> 0, status |-> 0, exit_cb |-> FALSE,
   active |-> FALSE, closing |-> FALSE, closed |-> FALSE,
   process_handle |-> INVALID, wait_handle |-> "invalid",
   exit_signal |-> 0, spawn_errno |-> 0, child_stdio_buffer |-> "null",
   handle_open |-> FALSE]

\* ------------------------------------------------ wait status (POSIX)
\* The status word waitpid stores: exit(c) keeps the low 8 bits of c in
\* bits 8..15; death by signal s stores s in bits 0..6.
StatusExited(c) == (c % 256) * 256
StatusSignaled(s) == s % 128

WIFEXITED(status) == status % 128 = 0
WEXITSTATUS(status) == (status \div 256) % 256
WIFSIGNALED(status) == (status % 128) # 0 /\ (status % 128) # 127
WTERMSIG(status) == status % 128

\* the exit status taken from the low byte of the status word
exit_status_of_lowbyte(status) == IF WIFEXITED(status) THEN status % 256 ELSE 0

\* uv__chld lines 108-110
exit_status_of(status) == IF WIFEXITED(status) THEN WEXITSTATUS(status) ELSE 0
\* uv__chld lines 112-114
term_signal_of(status) == IF WIFSIGNALED(status) THEN WTERMSIG(status) ELSE 0

\* ------------------------------------------------------ unix: queues
\* uv__process_queue: the index of the queue for a pid
uv__process_queue(pid) == pid % H

\* QUEUE_REMOVE(&process->queue): unlink the handle from whichever list holds it
QueuesWithout(qs, h) == [i \in 0..(H-1) |-> SelectSeqNot(qs[i], h)]

Queued(h) == \E i \in 0..(H-1) : InSeq(process_handles[i], h)

FreePids == {p \in Pids : os[p].st = "free"}

\* User code runs on the loop thread between loop iterations or inside a callback;
\* while uv__chld is between callbacks it cannot run.
UserCanRun == chld.phase = "idle" \/ incb # 0

\* the loop thread is free to dispatch an event (it is not inside a callback)
LoopCanRun == chld.phase = "idle" /\ incb = 0

\* ---------------------------------------------------- unix: uv_spawn
\* the handle activated whatever the child reported
ActivateOnSpawn_always(exec_errorno) == TRUE

\* unix uv_spawn line 468: only activate the handle if exec() happened
ActivateOnSpawn(exec_errorno) == exec_errorno = 0

\* uv_spawn returning 0 whatever the child reported
SpawnParent_ret0(h, pid, exec_errorno, exit_cb) ==
  [proc |-> [proc EXCEPT ![h] = [@ EXCEPT !.pid = pid, !.exit_cb = exit_cb,
                                          !.active = IF ActivateOnSpawn(exec_errorno)
                                                     THEN TRUE ELSE @]],
   queues |-> IF ActivateOnSpawn(exec_errorno)
              THEN [process_handles EXCEPT ![uv__process_queue(pid)] = Append(@, h)]
              ELSE process_handles,
   ret |-> 0]

\* unix uv_spawn lines 467-479: the parent after the child reported exec_errorno
\* (0, or the child's -errno); yields the handle fields and the queues.
SpawnParent(h, pid, exec_errorno, exit_cb) ==
  [proc |-> [proc EXCEPT ![h] = [@ EXCEPT !.pid = pid, !.exit_cb = exit_cb,
                                          !.active = IF ActivateOnSpawn(exec_errorno)
                                                     THEN TRUE ELSE @]],
   queues |-> IF ActivateOnSpawn(exec_errorno)
              THEN [process_handles EXCEPT ![uv__process_queue(pid)] = Append(@, h)]
              ELSE process_handles,
   ret |-> exec_errorno]

\* unix uv_spawn returning before fork (malloc or stdio failure): lines 350-370, 481-494
UnixSpawnEarlyError(h, err) ==
  /\ platform = "unix" /\ UserCanRun
  /\ sp[h].res = "none"
  /\ proc' = [proc EXCEPT ![h] = [@ EXCEPT !.init = TRUE]]
  /\ sp' = [sp EXCEPT ![h] = [res |-> "error", ret |-> err, cerr |-> 0]]
  /\ UNCHANGED <<platform, process_handles, chld, sigchld, child_watcher, os, cb, incb,
                 posted, pool, kill_log, fate>>
  /\ UNCHANGED nonprocvars

\* unix uv_spawn whose fork()/vfork() fails: lines 372-392, 481-494
UnixSpawnForkFails(h) ==
  /\ platform = "unix" /\ UserCanRun
  /\ sp[h].res = "none"
  /\ proc' = [proc EXCEPT ![h] = [@ EXCEPT !.init = TRUE, !.status = 0]]
  /\ child_watcher' = TRUE
  /\ sp' = [sp EXCEPT ![h] = [res |-> "error", ret |-> -EAGAIN, cerr |-> 0]]
  /\ UNCHANGED <<platform, process_handles, chld, sigchld, os, cb, incb,
                 posted, pool, kill_log, fate>>
  /\ UNCHANGED nonprocvars

\* unix uv_spawn whose child fails before or in exec with errno e: the child
\* reports -e and calls _exit(127) (lines 310-319); the parent runs lines 467-479.
UnixSpawnExecFails(h, exit_cb, e) ==
  /\ platform = "unix" /\ UserCanRun
  /\ sp[h].res = "none"
  /\ \E pid \in FreePids :
       LET r == SpawnParent(h, pid, -e, exit_cb) IN
       /\ proc' = [r.proc EXCEPT ![h] = [@ EXCEPT !.init = TRUE, !.status = 0]]
       /\ process_handles' = r.queues
       /\ sp' = [sp EXCEPT ![h] = [res |-> "execfail", ret |-> r.ret, cerr |-> e]]
       /\ os' = [os EXCEPT ![pid] = [st |-> "exited", status |-> StatusExited(127), h |-> h]]
       /\ fate' = [fate EXCEPT ![h] = [@ EXCEPT !.kind = "exit", !.val = 127]]
  /\ child_watcher' = TRUE
  /\ sigchld' = TRUE
  /\ UNCHANGED <<platform, chld, cb, incb, posted, pool, kill_log>>
  /\ UNCHANGED nonprocvars

\* unix uv_spawn whose child reaches exec: lines 323-479
UnixSpawnOk(h, exit_cb) ==
  /\ platform = "unix" /\ UserCanRun
  /\ sp[h].res = "none"
  /\ \E pid \in FreePids :
       LET r == SpawnParent(h, pid, 0, exit_cb) IN
       /\ proc' = [r.proc EXCEPT ![h] = [@ EXCEPT !.init = TRUE, !.status = 0]]
       /\ process_handles' = r.queues
       /\ sp' = [sp EXCEPT ![h] = [res |-> "ok", ret |-> r.ret, cerr |-> 0]]
       /\ os' = [os EXCEPT ![pid] = [st |-> "running", status |-> 0, h |-> h]]
  /\ child_watcher' = TRUE
  /\ UNCHANGED <<platform, chld, sigchld, cb, incb, posted, pool, kill_log, fate>>
  /\ UNCHANGED nonprocvars

\* ------------------------------------------------ unix: the children
\* a running child calls exit(code); the kernel raises SIGCHLD
UnixChildExit(pid, code) ==
  /\ platform = "unix"
  /\ os[pid].st = "running"
  /\ os' = [os EXCEPT ![pid] = [@ EXCEPT !.st = "exited", !.status = StatusExited(code)]]
  /\ fate' = [fate EXCEPT ![os[pid].h] = [@ EXCEPT !.kind = "exit", !.val = code]]
  /\ sigchld' = child_watcher
  /\ UNCHANGED <<platform, proc, sp, process_handles, chld, child_watcher, cb, incb,
                 posted, pool, kill_log>>
  /\ UNCHANGED nonprocvars

\* ----------------------------------------------------- unix: uv__chld
\* waitpid(pid, &status, WNOHANG): 0 while the child runs, the pid when it reaped
\* an exited child, -1/ECHILD when the caller has no such child
WaitPid(ost, pid) ==
  IF ost[pid].st = "running" THEN "none"
  ELSE IF ost[pid].st = "exited" THEN "reaped"
  ELSE "ECHILD"

RECURSIVE ScanQueue_first(_, _, _)
\* a poll that stops at the first child it reaped: one child per signal
ScanQueue_first(q, k, acc) ==
  IF k > Len(q) THEN acc
  ELSE LET process == q[k]
           pid == acc.proc[process].pid
           w == WaitPid(acc.os, pid)
       IN IF w = "reaped" /\ acc.pend = <<>>
          THEN ScanQueue_first(q, k + 1,
                 [keep |-> acc.keep,
                  pend |-> Append(acc.pend, process),
                  os |-> [acc.os EXCEPT ![pid] = [st |-> "free", status |-> 0, h |-> 0]],
                  proc |-> [acc.proc EXCEPT ![process] =
                              [@ EXCEPT !.status = acc.os[pid].status]]])
          ELSE ScanQueue_first(q, k + 1, [acc EXCEPT !.keep = Append(@, process)])

RECURSIVE ScanQueue(_, _, _)
\* uv__chld lines 75-95 over the queue q from position k on; acc carries the
\* handles left in the queue, the pending list, the process table and the handles
ScanQueue(q, k, acc) ==
  IF k > Len(q) THEN acc
  ELSE LET process == q[k]
           pid == acc.proc[process].pid
           w == WaitPid(acc.os, pid)
       IN IF w = "reaped"
          THEN ScanQueue(q, k + 1,
                 [keep |-> acc.keep,
                  pend |-> Append(acc.pend, process),
                  os |-> [acc.os EXCEPT ![pid] = [st |-> "free", status |-> 0, h |-> 0]],
                  proc |-> [acc.proc EXCEPT ![process] =
                              [@ EXCEPT !.status = acc.os[pid].status]]])
          ELSE ScanQueue(q, k + 1, [acc EXCEPT !.keep = Append(@, process)])

\* uv__chld moving on to queue i: scan it, then drain what it found
ChldScan(i) ==
  LET r == ScanQueue(process_handles[i], 1,
                     [keep |-> <<>>, pend |-> <<>>, os |-> os, proc |-> proc])
  IN /\ process_handles' = [process_handles EXCEPT ![i] = r.keep]
     /\ os' = r.os
     /\ proc' = r.proc
     /\ chld' = [phase |-> "run", i |-> i, pending |-> r.pend]

\* the signal watcher dispatches SIGCHLD: uv__chld lines 66-95 for queue 0
ChldStart ==
  /\ platform = "unix" /\ LoopCanRun
  /\ child_watcher /\ sigchld
  /\ sigchld' = FALSE
  /\ ChldScan(0)
  /\ UNCHANGED <<platform, sp, child_watcher, cb, incb, posted, pool, kill_log, fate>>
  /\ UNCHANGED nonprocvars

\* a handle that is never stopped
uv__handle_stop_never(p) == p

\* uv__chld line 103: uv__handle_stop(process)
uv__handle_stop(p) == [p EXCEPT !.active = FALSE]

\* uv__chld line 105: the callback is skipped when exit_cb is NULL
HasExitCb(p) == p.exit_cb

\* uv__chld lines 97-117: take the head of pending, stop it, call its exit_cb
ChldPending ==
  /\ platform = "unix"
  /\ chld.phase = "run" /\ incb = 0
  /\ chld.pending # <<>>
  /\ LET process == Head(chld.pending) IN
     /\ chld' = [chld EXCEPT !.pending = Tail(@)]
     /\ proc' = [proc EXCEPT ![process] = uv__handle_stop(@)]
     /\ IF HasExitCb(proc[process])
        THEN /\ cb' = [cb EXCEPT ![process] =
                         [count |-> @.count + 1,
                          exit_status |-> exit_status_of(proc[process].status),
                          term_signal |-> term_signal_of(proc[process].status),
                          active |-> proc'[process].active]]
             /\ incb' = process
        ELSE UNCHANGED <<cb, incb>>
  /\ UNCHANGED <<platform, sp, process_handles, sigchld, child_watcher, os,
                 posted, pool, kill_log, fate>>
  /\ UNCHANGED nonprocvars

\* uv__chld lines 71-73, 118: pending is empty, go to the next queue or return
ChldNext ==
  /\ platform = "unix"
  /\ chld.phase = "run" /\ incb = 0
  /\ chld.pending = <<>>
  /\ IF chld.i + 1 < H
     THEN ChldScan(chld.i + 1)
     ELSE /\ chld' = [phase |-> "idle", i |-> 0, pending |-> <<>>]
          /\ UNCHANGED <<process_handles, os, proc>>
  /\ UNCHANGED <<platform, sp, sigchld, child_watcher, cb, incb, posted, pool, kill_log, fate>>
  /\ UNCHANGED nonprocvars

\* the user's exit callback returns
ExitCbReturn ==
  /\ incb # 0
  /\ incb' = 0
  /\ UNCHANGED <<platform, proc, sp, process_handles, chld, sigchld, child_watcher,
                 os, cb, posted, pool, kill_log, fate>>
  /\ UNCHANGED nonprocvars

\* ------------------------------------------------------- unix: kill
\* kill(pid, signum): ESRCH when no such process; signal 0 only probes (an
\* exited child that was not waited for still exists); any other signal here
\* terminates a running child.  Yields the return value and the process table.
SysKill(ost, pid, signum) ==
  IF ost[pid].st = "free" THEN [ret |-> -ESRCH, os |-> ost]
  ELSE IF signum = 0 \/ ost[pid].st = "exited" THEN [ret |-> 0, os |-> ost]
  ELSE [ret |-> 0,
        os |-> [ost EXCEPT ![pid] = [@ EXCEPT !.st = "exited",
                                              !.status = StatusSignaled(signum)]]]

\* unix uv_process_kill / uv_kill
UnixKill(h, signum) ==
  /\ platform = "unix" /\ UserCanRun
  /\ proc[h].init /\ proc[h].pid # 0 /\ ~proc[h].closing
  /\ LET r == SysKill(os, proc[h].pid, signum) IN
     /\ os' = r.os
     /\ sigchld' = IF r.os # os THEN child_watcher ELSE sigchld
     /\ fate' = IF r.os # os
                THEN [fate EXCEPT ![os[proc[h].pid].h] =
                        [@ EXCEPT !.kind = "signal", !.val = signum]]
                ELSE fate
     /\ kill_log' = [signum |-> signum, ret |-> r.ret,
                     err |-> IF r.ret = 0 THEN "OK" ELSE "ESRCH"]
  /\ UNCHANGED <<platform, proc, sp, process_handles, chld, child_watcher, cb, incb,
                 posted, pool>>
  /\ UNCHANGED nonprocvars

\* ------------------------------------------------------ unix: close
\* uv__process_close: QUEUE_REMOVE and uv__handle_stop; the closing flag is set
\* by its caller uv_close
UnixClose(h) ==
  /\ platform = "unix" /\ UserCanRun
  /\ proc[h].init /\ ~proc[h].closing
  /\ process_handles' = QueuesWithout(process_handles, h)
  /\ chld' = [chld EXCEPT !.pending = SelectSeqNot(@, h)]
  /\ proc' = [proc EXCEPT ![h] = [@ EXCEPT !.closing = TRUE, !.active = FALSE]]
  /\ UNCHANGED <<platform, sp, sigchld, child_watcher, os, cb, incb, posted, pool,
                 kill_log, fate>>
  /\ UNCHANGED nonprocvars

\* ----------------------------------------------------- win: uv_spawn
\* win uv_spawn lines 1153-1156: SETUID/SETGID are refused before uv_process_init
WinSpawnNotSup(h) ==
  /\ platform = "win" /\ UserCanRun
  /\ sp[h].res = "none"
  /\ sp' = [sp EXCEPT ![h] = [res |-> "error", ret |-> -1, cerr |-> 0]]
  /\ UNCHANGED <<platform, proc, process_handles, chld, sigchld, child_watcher, os, cb,
                 incb, posted, pool, kill_log, fate>>
  /\ UNCHANGED nonprocvars

\* win uv_spawn lines 1301-1316: start the handle when err is 0, else clean up
SpawnDone(p, err) ==
  IF err = 0 THEN [p EXCEPT !.active = TRUE]
  ELSE [p EXCEPT !.wait_handle = "invalid", !.process_handle = INVALID]

\* win uv_spawn failing before CreateProcessW (cwd or child stdio): err = -1
WinSpawnSetupError(h, exit_cb) ==
  /\ platform = "win" /\ UserCanRun
  /\ sp[h].res = "none"
  /\ proc' = [proc EXCEPT ![h] =
                SpawnDone([ProcInit EXCEPT !.init = TRUE, !.exit_cb = exit_cb], -1)]
  /\ sp' = [sp EXCEPT ![h] = [res |-> "error", ret |-> -1, cerr |-> 0]]
  /\ UNCHANGED <<platform, process_handles, chld, sigchld, child_watcher, os, cb,
                 incb, posted, pool, kill_log, fate>>
  /\ UNCHANGED nonprocvars

\* win uv_spawn lines 1233-1262: CreateProcessW succeeded; the exit wait is registered
WinSpawnOk(h, exit_cb) ==
  /\ platform = "win" /\ UserCanRun
  /\ sp[h].res = "none"
  /\ \E pid \in FreePids :
       /\ proc' = [proc EXCEPT ![h] =
                     SpawnDone([ProcInit EXCEPT !.init = TRUE, !.exit_cb = exit_cb,
                                                !.process_handle = pid, !.pid = pid,
                                                !.handle_open = TRUE,
                                                !.wait_handle = "exit"], 0)]
       /\ os' = [os EXCEPT ![pid] = [st |-> "running", status |-> 0, h |-> h]]
  /\ pool' = pool \cup {<<"exit_wait", h>>}
  /\ sp' = [sp EXCEPT ![h] = [res |-> "ok", ret |-> 0, cerr |-> 0]]
  /\ UNCHANGED <<platform, process_handles, chld, sigchld, child_watcher, cb,
                 incb, posted, kill_log, fate>>
  /\ UNCHANGED nonprocvars

\* CreateProcessW failed and uv_spawn calls the exit callback itself
WinSpawnCreateFails_sync(h, exit_cb) ==
  /\ platform = "win" /\ UserCanRun
  /\ sp[h].res = "none"
  /\ proc' = [proc EXCEPT ![h] = [ProcInit EXCEPT !.init = TRUE, !.exit_cb = exit_cb,
                                                  !.spawn_errno = ERROR_FILE_NOT_FOUND]]
  /\ cb' = [cb EXCEPT ![h] = [count |-> @.count + 1, exit_status |-> 127,
                              term_signal |-> 0, active |-> FALSE]]
  /\ sp' = [sp EXCEPT ![h] = [res |-> "execfail", ret |-> 0, cerr |-> ERROR_FILE_NOT_FOUND]]
  /\ UNCHANGED <<platform, process_handles, chld, sigchld, child_watcher, os,
                 incb, posted, pool, kill_log, fate>>
  /\ UNCHANGED nonprocvars

\* win uv_spawn lines 1264-1274: CreateProcessW failed; spawn pretends success and
\* queues spawn_failure on the thread pool, keeping the child stdio handles open
WinSpawnCreateFails(h, exit_cb) ==
  /\ platform = "win" /\ UserCanRun
  /\ sp[h].res = "none"
  /\ proc' = [proc EXCEPT ![h] =
                SpawnDone([ProcInit EXCEPT !.init = TRUE, !.exit_cb = exit_cb,
                                           !.spawn_errno = ERROR_FILE_NOT_FOUND,
                                           !.child_stdio_buffer = "open"], 0)]
  /\ pool' = pool \cup {<<"spawn_failure", h>>}
  /\ sp' = [sp EXCEPT ![h] = [res |-> "execfail", ret |-> 0, cerr |-> ERROR_FILE_NOT_FOUND]]
  /\ UNCHANGED <<platform, process_handles, chld, sigchld, child_watcher, os, cb,
                 incb, posted, kill_log, fate>>
  /\ UNCHANGED nonprocvars

\* -------------------------------------------- win: thread-pool callbacks
\* spawn_failure: writes the message, then posts exit_req
SpawnFailure(h) ==
  /\ <<"spawn_failure", h>> \in pool
  /\ pool' = pool \ {<<"spawn_failure", h>>}
  /\ posted' = posted \cup {<<"exit", h>>}
  /\ UNCHANGED <<platform, proc, sp, process_handles, chld, sigchld, child_watcher,
                 os, cb, incb, kill_log, fate>>
  /\ UNCHANGED nonprocvars

\* exit_wait_callback: the registered one-shot wait fires once the process has exited
ExitWaitCallback(h) ==
  /\ <<"exit_wait", h>> \in pool
  /\ os[proc[h].process_handle].st = "exited"
  /\ pool' = pool \ {<<"exit_wait", h>>}
  /\ posted' = posted \cup {<<"exit", h>>}
  /\ UNCHANGED <<platform, proc, sp, process_handles, chld, sigchld, child_watcher,
                 os, cb, incb, kill_log, fate>>
  /\ UNCHANGED nonprocvars

\* close_wait_callback: UnregisterWaitEx has completed; posts close_req
CloseWaitCallback(h) ==
  /\ <<"close_wait", h>> \in pool
  /\ pool' = pool \ {<<"close_wait", h>>}
  /\ posted' = posted \cup {<<"close", h>>}
  /\ UNCHANGED <<platform, proc, sp, process_handles, chld, sigchld, child_watcher,
                 os, cb, incb, kill_log, fate>>
  /\ UNCHANGED nonprocvars

\* ------------------------------------------------- win: the children
\* a running child calls ExitProcess(code)
WinChildExit(pid, code) ==
  /\ platform = "win"
  /\ os[pid].st = "running"
  /\ os' = [os EXCEPT ![pid] = [@ EXCEPT !.st = "exited", !.status = code]]
  /\ fate' = [fate EXCEPT ![os[pid].h] = [@ EXCEPT !.kind = "exit", !.val = code]]
  /\ UNCHANGED <<platform, proc, sp, process_handles, chld, sigchld, child_watcher,
                 cb, incb, posted, pool, kill_log>>
  /\ UNCHANGED nonprocvars

\* a process TerminateProcess was called on finishes terminating
WinTerminated(pid) ==
  /\ platform = "win"
  /\ os[pid].st = "terminating"
  /\ os' = [os EXCEPT ![pid].st = "exited"]
  /\ fate' = [fate EXCEPT ![os[pid].h].kind = "killed"]
  /\ UNCHANGED <<platform, proc, sp, process_handles, chld, sigchld, child_watcher,
                 cb, incb, posted, pool, kill_log>>
  /\ UNCHANGED nonprocvars

\* GetExitCodeProcess: STILL_ACTIVE until the process has exited, then its exit code
GetExitCodeProcess(ost, ph) ==
  IF ost[ph].st = "exited" THEN ost[ph].status ELSE STILL_ACTIVE

\* ------------------------------------------- win: uv_process_proc_exit
\* exit_code left as it was when the process never started
ProcExitCode_unset(p) ==
  IF p.process_handle = INVALID THEN 0 ELSE GetExitCodeProcess(os, p.process_handle)

\* uv_process_proc_exit lines 905-910: 127 when the process never started
ProcExitCode(p) ==
  IF p.process_handle = INVALID THEN 127 ELSE GetExitCodeProcess(os, p.process_handle)

\* no exit request is dropped
ProcExitIgnored_never(p) == FALSE

\* uv_process_proc_exit line 895: an exit request of a closing handle is dropped
ProcExitIgnored(p) == p.closing

\* uv_process_proc_exit that gives up the process handle once it has the exit
\* code
WinProcExit_closes(h) ==
  /\ platform = "win" /\ LoopCanRun
  /\ <<"exit", h>> \in posted
  /\ posted' = posted \ {<<"exit", h>>}
  /\ IF ProcExitIgnored(proc[h])
     THEN UNCHANGED <<proc, pool, cb, incb, os>>
     ELSE /\ pool' = IF proc[h].wait_handle # "invalid"
                     THEN pool \ {<<"exit_wait", h>>} ELSE pool
          /\ proc' = [proc EXCEPT ![h] = [@ EXCEPT !.wait_handle = "invalid",
                                                   !.active = FALSE]]
          /\ os' = IF proc[h].process_handle # INVALID /\ os[proc[h].process_handle].st = "exited"
                   THEN [os EXCEPT ![proc[h].process_handle] =
                           [st |-> "free", status |-> 0, h |-> 0]]
                   ELSE os
          /\ IF HasExitCb(proc[h])
             THEN /\ cb' = [cb EXCEPT ![h] =
                              [count |-> @.count + 1,
                               exit_status |-> ProcExitCode(proc[h]),
                               term_signal |-> proc[h].exit_signal,
                               active |-> proc'[h].active]]
                  /\ incb' = h
             ELSE UNCHANGED <<cb, incb>>
  /\ UNCHANGED <<platform, sp, process_handles, chld, sigchld, child_watcher,
                 kill_log, fate>>
  /\ UNCHANGED nonprocvars

\* the loop dequeues exit_req: uv_process_proc_exit
WinProcExit(h) ==
  /\ platform = "win" /\ LoopCanRun
  /\ <<"exit", h>> \in posted
  /\ posted' = posted \ {<<"exit", h>>}
  /\ IF ProcExitIgnored(proc[h])
     THEN UNCHANGED <<proc, pool, cb, incb>>
     ELSE /\ pool' = IF proc[h].wait_handle # "invalid"
                     THEN pool \ {<<"exit_wait", h>>} ELSE pool
          /\ proc' = [proc EXCEPT ![h] = [@ EXCEPT !.wait_handle = "invalid",
                                                   !.active = FALSE]]
          /\ IF HasExitCb(proc[h])
             THEN /\ cb' = [cb EXCEPT ![h] =
                              [count |-> @.count + 1,
                               exit_status |-> ProcExitCode(proc[h]),
                               term_signal |-> proc[h].exit_signal,
                               active |-> proc'[h].active]]
                  /\ incb' = h
             ELSE UNCHANGED <<cb, incb>>
  /\ UNCHANGED <<platform, sp, process_handles, chld, sigchld, child_watcher, os,
                 kill_log, fate>>
  /\ UNCHANGED nonprocvars

\* -------------------------------------------------------- win: kill
\* TerminateProcess(ph, 1): starts the termination of a running process and
\* returns at once; fails on a process that has exited
TerminateProcess(ost, ph) ==
  IF ost[ph].st = "running"
  THEN [ok |-> TRUE, os |-> [ost EXCEPT ![ph] = [@ EXCEPT !.st = "terminating",
                                                          !.status = 1]]]
  ELSE IF ost[ph].st = "terminating" THEN [ok |-> TRUE, os |-> ost]
  ELSE [ok |-> FALSE, os |-> ost]

\* uv__kill without the signum 0 health check
uv__kill_noprobe(ost, ph, signum) ==
  IF signum = SIGTERM \/ signum = SIGKILL \/ signum = SIGINT
  THEN LET t == TerminateProcess(ost, ph) IN
       [err |-> IF t.ok THEN "OK" ELSE "EACCES", os |-> t.os]
  ELSE [err |-> "ENOSYS", os |-> ost]

\* uv__kill (win): yields the error and the process table
uv__kill(ost, ph, signum) ==
  IF signum = SIGTERM \/ signum = SIGKILL \/ signum = SIGINT
  THEN LET t == TerminateProcess(ost, ph) IN
       [err |-> IF t.ok THEN "OK" ELSE "EACCES", os |-> t.os]
  ELSE IF signum = 0
  THEN [err |-> IF GetExitCodeProcess(ost, ph) = STILL_ACTIVE THEN "OK" ELSE "ESRCH",
        os |-> ost]
  ELSE [err |-> "ENOSYS", os |-> ost]

\* the signal recorded whatever uv__kill returned
KillRecordsSignal_always(err) == TRUE

\* win uv_process_kill line 1367: a successful call records the signal
KillRecordsSignal(err) == err = "OK"

\* win uv_process_kill
WinKill(h, signum) ==
  /\ platform = "win" /\ UserCanRun
  /\ proc[h].init /\ ~proc[h].closing
  /\ IF proc[h].process_handle = INVALID
     THEN /\ kill_log' = [signum |-> signum, ret |-> -1, err |-> "EINVAL"]
          /\ UNCHANGED <<os, proc, fate>>
     ELSE LET r == uv__kill(os, proc[h].process_handle, signum) IN
          /\ os' = r.os
          /\ LET f == IF r.err = "OK" THEN [fate EXCEPT ![h].oksig = signum] ELSE fate IN
             fate' = IF r.os # os
                     THEN [f EXCEPT ![h] = [@ EXCEPT !.kind = "killing", !.val = signum]]
                     ELSE f
          /\ kill_log' = [signum |-> signum, ret |-> IF r.err = "OK" THEN 0 ELSE -1,
                          err |-> r.err]
          /\ proc' = IF KillRecordsSignal(r.err)
                     THEN [proc EXCEPT ![h] = [@ EXCEPT !.exit_signal = signum]]
                     ELSE proc
  /\ UNCHANGED <<platform, sp, process_handles, chld, sigchld, child_watcher, cb, incb,
                 posted, pool>>
  /\ UNCHANGED nonprocvars

\* ------------------------------------------------------- win: close
\* uv_process_close (UV_HANDLE_CLOSING is set by its caller uv_close)
WinClose(h) ==
  /\ platform = "win" /\ UserCanRun
  /\ proc[h].init /\ ~proc[h].closing
  /\ IF proc[h].wait_handle # "invalid"
     THEN /\ pool' = (pool \ {<<"exit_wait", h>>}) \cup {<<"close_wait", h>>}
          /\ proc' = [proc EXCEPT ![h] = [@ EXCEPT !.closing = TRUE, !.active = TRUE,
                                                   !.wait_handle = "close"]]
          /\ UNCHANGED posted
     ELSE /\ posted' = posted \cup {<<"endgame", h>>}
          /\ proc' = [proc EXCEPT ![h] = [@ EXCEPT !.closing = TRUE, !.active = TRUE]]
          /\ UNCHANGED pool
  /\ UNCHANGED <<platform, sp, process_handles, chld, sigchld, child_watcher, os, cb,
                 incb, kill_log, fate>>
  /\ UNCHANGED nonprocvars

\* the loop dequeues close_req: uv_process_proc_close
WinProcClose(h) ==
  /\ platform = "win" /\ LoopCanRun
  /\ <<"close", h>> \in posted
  /\ posted' = (posted \ {<<"close", h>>}) \cup {<<"endgame", h>>}
  /\ UNCHANGED <<platform, proc, sp, process_handles, chld, sigchld, child_watcher,
                 os, cb, incb, pool, kill_log, fate>>
  /\ UNCHANGED nonprocvars

\* CloseHandle on the process handle: the object of an exited process goes away
CloseProcessHandle(ost, ph) ==
  IF ph # INVALID /\ ost[ph].st = "exited"
  THEN [ost EXCEPT ![ph] = [st |-> "free", status |-> 0, h |-> 0]]
  ELSE ost

\* the buffer left as it is
close_and_free_child_stdio_kept(p) == p

\* lines 955-957: if (handle->child_stdio_buffer != NULL)
\* close_and_free_child_stdio(handle->child_stdio_buffer)
close_and_free_child_stdio(p) ==
  [p EXCEPT !.child_stdio_buffer = IF @ # "null" THEN "freed" ELSE @]

\* line 959, uv__handle_close: the handle is marked closed and its close
\* callback is called
uv__handle_close(p) == [p EXCEPT !.closed = TRUE]

\* uv_process_endgame
WinEndgame(h) ==
  /\ platform = "win" /\ LoopCanRun
  /\ <<"endgame", h>> \in posted
  /\ posted' = posted \ {<<"endgame", h>>}
  /\ IF proc[h].closing
     THEN /\ os' = CloseProcessHandle(os, proc[h].process_handle)
          /\ proc' = [proc EXCEPT ![h] =
                        uv__handle_close(close_and_free_child_stdio(
                          [@ EXCEPT !.active = FALSE, !.handle_open = FALSE]))]
     ELSE UNCHANGED <<os, proc>>
  /\ UNCHANGED <<platform, sp, process_handles, chld, sigchld, child_watcher, cb,
                 incb, pool, kill_log, fate>>
  /\ UNCHANGED nonprocvars

\* ------------------------------------------------------- pipes (unix)
Pipes == 1..NumPipes
\* the names a caller binds; over a one-letter alphabet a name is its length
Names == UNION {[1..n -> {"a"}] : n \in 1..MaxNameLen}
\* handle->pipe_fname == NULL
NoName == <<>>
\* the descriptors the process may hold for its pipes
Fds == 0..(NumPipes - 1)

\* the fields after uv_pipe_init: uv__stream_init leaves io_watcher.fd = -1
PipeInit ==
  [fd |-> -1, pipe_fname |-> NoName, close_pc |-> 0,
   connection_cb |-> FALSE, accepted_fd |-> -1,
   connect_req |-> FALSE, delayed_error |-> 0,
   pevents |-> {},    \* the events io_watcher is started for: "in", "out"
   fed |-> FALSE]     \* io_watcher is in the loop's pending queue (uv__io_feed)

\* no node at a path; a node records who created it (st, and by: the pipe of
\* this process), under which name it was asked for (name), and, for a node
\* of another process, whether that process still holds its socket (live)
NoNode == [st |-> "absent", by |-> 0, name |-> NoName, live |-> FALSE]

\* uv_strlcpy(dst, src, size): at most size - 1 characters of src reach dst
uv_strlcpy(src, size) ==
  SubSeq(src, 1, IF Len(src) < size THEN Len(src) ELSE size - 1)

\* the path bind() sees: saddr.sun_path after the copy at line 81
SunPath(name) == uv_strlcpy(name, SunPathSize)

Paths == {SunPath(n) : n \in Names}

OpenFds == {pipe[p].fd : p \in Pipes} \ {-1}

\* uv__socket(): the lowest descriptor that is not open
uv__socket ==
  CHOOSE fd \in Fds \ OpenFds : \A g \in Fds \ OpenFds : fd <= g

\* a descriptor test that finds no descriptor on any pipe
uv__stream_fd_unset(p) == -1

\* uv__stream_fd(handle)
uv__stream_fd(p) == pipe[p].fd

\* unlink(path): removes whatever node is at the path, fails when there is none
unlink(f, path) ==
  IF f[path].st # "absent" THEN [f EXCEPT ![path] = NoNode] ELSE f

\* uv_pipe_bind on a pipe that already has a descriptor: lines 62-63
PipeBindInval(p, name) ==
  /\ pipe[p].close_pc = 0
  /\ uv__stream_fd(p) >= 0
  /\ bind_log' = [p |-> p, name |-> name, ret |-> -EINVAL]
  /\ UNCHANGED <<pipe, fs>>
  /\ UNCHANGED <<nonpipevars, connvars>>

\* uv_pipe_bind whose strdup (err = -ENOMEM) or uv__socket fails: lines 66-77,
\* 98-106
PipeBindEarlyError(p, name, err) ==
  /\ pipe[p].close_pc = 0
  /\ uv__stream_fd(p) < 0
  /\ bind_log' = [p |-> p, name |-> name, ret |-> err]
  /\ UNCHANGED <<pipe, fs>>
  /\ UNCHANGED <<nonpipevars, connvars>>

\* uv_pipe_bind whose bind() fails with errno e: lines 84-90, 98-106.  The
\* socket is closed and the copy of the name freed; bound is 0, nothing is
\* unlinked.
PipeBindFails(p, name, e) ==
  /\ pipe[p].close_pc = 0
  /\ uv__stream_fd(p) < 0
  /\ e = EADDRINUSE <=> fs[SunPath(name)].st # "absent"
  /\ bind_log' = [p |-> p, name |-> name,
                  ret |-> IF -e = -ENOENT THEN -EACCES ELSE -e]
  /\ UNCHANGED <<pipe, fs>>
  /\ UNCHANGED <<nonpipevars, connvars>>

\* uv_pipe_bind that succeeds: lines 66-96.  bind() creates the node at the
\* path copied into sun_path; the handle keeps the whole name.
PipeBindOk(p, name) ==
  /\ pipe[p].close_pc = 0
  /\ uv__stream_fd(p) < 0
  /\ fs[SunPath(name)].st = "absent"
  /\ fs' = [fs EXCEPT ![SunPath(name)] =
              [st |-> "ours", by |-> p, name |-> name, live |-> FALSE]]
  /\ pipe' = [pipe EXCEPT ![p] = [@ EXCEPT !.pipe_fname = name, !.fd = uv__socket]]
  /\ bind_log' = [p |-> p, name |-> name, ret |-> 0]
  /\ UNCHANGED <<nonpipevars, connvars>>

\* the system calls of uv__pipe_close in reverse program order
uv__pipe_close_steps_reversed == <<"stream_close", "unlink">>

\* the system calls of uv__pipe_close in program order: unlink (line 200),
\* then close, inside uv__stream_close (line 205).  Other processes run
\* between the two.
uv__pipe_close_steps == <<"unlink", "stream_close">>

\* the next system call uv__pipe_close makes on pipe p, or "done"
ClosePc(p) ==
  IF pipe[p].close_pc < Len(uv__pipe_close_steps)
  THEN uv__pipe_close_steps[pipe[p].close_pc + 1]
  ELSE "done"

\* uv__pipe_close, lines 193-203: unlink the name the handle owns, forget it
PipeCloseUnlink(p) ==
  /\ ClosePc(p) = "unlink"
  /\ IF pipe[p].pipe_fname # NoName
     THEN /\ fs' = unlink(fs, pipe[p].pipe_fname)
          /\ pipe' = [pipe EXCEPT ![p] = [@ EXCEPT !.pipe_fname = NoName,
                                                    !.close_pc = @ + 1]]
     ELSE /\ fs' = fs
          /\ pipe' = [pipe EXCEPT ![p] = [@ EXCEPT !.close_pc = @ + 1]]
  /\ UNCHANGED bind_log
  /\ UNCHANGED <<nonpipevars, connvars>>

\* uv__pipe_close, line 205: uv__stream_close releases the descriptor
PipeCloseStream(p) ==
  /\ ClosePc(p) = "stream_close"
  /\ pipe' = [pipe EXCEPT ![p] = [@ EXCEPT !.fd = -1, !.close_pc = @ + 1]]
  /\ UNCHANGED <<fs, bind_log>>
  /\ UNCHANGED <<nonpipevars, connvars>>

\* A node is stale when the socket that created it has been closed: nothing
\* answers behind the name any more.
Stale(path) ==
  \/ fs[path].st = "ours" /\ pipe[fs[path].by].fd = -1
  \/ fs[path].st = "other" /\ ~fs[path].live

\* another process binds a socket to a free path
OtherBind(path) ==
  /\ fs[path].st = "absent"
  /\ fs' = [fs EXCEPT ![path] = [st |-> "other", by |-> 0, name |-> path, live |-> TRUE]]
  /\ UNCHANGED <<pipe, bind_log>>
  /\ UNCHANGED <<nonpipevars, connvars>>

\* another process finds a stale node at the path, removes it and binds its
\* own socket there
OtherRebind(path) ==
  /\ Stale(path)
  /\ fs' = [fs EXCEPT ![path] = [st |-> "other", by |-> 0, name |-> path, live |-> TRUE]]
  /\ UNCHANGED <<pipe, bind_log>>
  /\ UNCHANGED <<nonpipevars, connvars>>

\* another process closes its socket, after unlinking the node or without
OtherClose(path, unlinks) ==
  /\ fs[path].st = "other" /\ fs[path].live
  /\ fs' = [fs EXCEPT ![path] = IF unlinks THEN NoNode ELSE [@ EXCEPT !.live = FALSE]]
  /\ UNCHANGED <<pipe, bind_log>>
  /\ UNCHANGED <<nonpipevars, connvars>>

\* ------------------------------------------- pipes: listen and connect
\* a socket the kernel knows nothing special about
SockInit == [listening |-> FALSE, backlog |-> 0, cstate |-> "none", so_error |-> 0]

\* nothing accepted, no callback made, no call returned
LogInit ==
  [accepted |-> <<>>, conn_cb |-> <<>>, connect_cb |-> <<>>,
   connect_err |-> 0, listen_ret |-> 0]

\* uv_pipe_listen accepting a pipe without a descriptor
ListenRefuses_never(p) == FALSE

\* uv_pipe_listen line 179: the pipe has no descriptor
ListenRefuses(p) == uv__stream_fd(p) = -1

\* listen(fd, backlog): EBADF without a descriptor, EINVAL on a socket that is
\* not bound to a name or is connecting or connected, else 0
SysListen(p) ==
  IF pipe[p].fd < 0 THEN EBADF
  ELSE IF pipe[p].pipe_fname = NoName \/ sock[p].cstate # "none" THEN EINVAL
  ELSE 0

\* uv_pipe_listen(p, backlog, cb): lines 178-189
PipeListen(p) ==
  /\ pipe[p].close_pc = 0
  /\ IF ListenRefuses(p)
     THEN /\ plog' = [plog EXCEPT ![p] = [@ EXCEPT !.listen_ret = -EINVAL]]
          /\ UNCHANGED <<pipe, sock>>
     ELSE IF SysListen(p) # 0
     THEN /\ plog' = [plog EXCEPT ![p] = [@ EXCEPT !.listen_ret = -SysListen(p)]]
          /\ UNCHANGED <<pipe, sock>>
     ELSE /\ plog' = [plog EXCEPT ![p] = [@ EXCEPT !.listen_ret = 0]]
          /\ pipe' = [pipe EXCEPT ![p] = [@ EXCEPT !.connection_cb = TRUE,
                                                    !.pevents = @ \cup {"in"}]]
          /\ sock' = [sock EXCEPT ![p] = [@ EXCEPT !.listening = TRUE]]
  /\ UNCHANGED <<fs, bind_log>>
  /\ UNCHANGED nonpipevars

\* the pipe of this process that listens behind the node at a path, or 0
ListenerAt(path) ==
  IF fs[path].st = "ours" /\ sock[fs[path].by].listening THEN fs[path].by ELSE 0

\* connect(fd, sun_path): 0 when a socket listens behind the node and has room
\* for the connection, else the errno
SysConnect(path) ==
  IF fs[path].st = "absent" THEN ENOENT
  ELSE IF fs[path].st = "other" THEN (IF fs[path].live THEN 0 ELSE ECONNREFUSED)
  ELSE IF ListenerAt(path) = 0 THEN ECONNREFUSED
  ELSE IF sock[ListenerAt(path)].backlog
            + Len(plog[ListenerAt(path)].accepted) >= MaxBacklog THEN EAGAIN
  ELSE 0

\* how a uv_pipe_connect call can go: uv__socket fails; connect() fails, is
\* accepted at once (the rule for AF_UNIX) or is in progress; after either of
\* the last two uv__stream_open may fail
ConnectOutcomes == {"sockfail", "connfail", "connected", "inprogress", "openfail"}

\* err as uv_pipe_connect leaves it at the label out: lines 234-265
ConnectErr(path, oc) ==
  IF oc = "sockfail" THEN -EMFILE
  ELSE IF oc = "connfail" THEN -SysConnect(path)
  ELSE IF oc = "openfail" THEN -EINVAL
  ELSE 0

\* uv_pipe_connect that keeps its error to itself
StoredError_none(err) == 0

\* uv_pipe_connect line 269: handle->delayed_error = err
StoredError(err) == err

\* uv_pipe_connect calling the connect callback itself when it met an error
PipeConnect_sync(p, name, oc) ==
  LET new_sock == uv__stream_fd(p) = -1
      path == uv_strlcpy(name, SunPathSize)
      err == ConnectErr(path, oc)
      q == ListenerAt(path)
      made == oc \in {"connected", "inprogress", "openfail"}
  IN
  /\ pipe[p].close_pc = 0
  /\ ~pipe[p].connect_req /\ ~sock[p].listening /\ sock[p].cstate = "none"
  /\ plog[p].connect_cb = <<>>
  /\ oc \in {"sockfail", "openfail"} => new_sock
  /\ oc = "connfail" <=> (oc # "sockfail" /\ SysConnect(path) # 0)
  /\ pipe' = [pipe EXCEPT ![p] =
       [@ EXCEPT !.fd = IF new_sock /\ oc # "sockfail" THEN uv__socket ELSE @,
                 !.delayed_error = 0,
                 !.connect_req = (err = 0),
                 !.pevents = IF err = 0 THEN @ \cup {"in", "out"} ELSE @]]
  /\ sock' = [r \in Pipes |->
       IF r = p /\ made
       THEN [sock[r] EXCEPT !.cstate = IF oc = "inprogress" THEN "inprogress"
                                       ELSE "connected"]
       ELSE IF r = q /\ made THEN [sock[r] EXCEPT !.backlog = @ + 1]
       ELSE sock[r]]
  /\ plog' = [plog EXCEPT ![p] = [@ EXCEPT !.connect_err = err,
                 !.connect_cb = IF err # 0 THEN Append(@, err) ELSE @]]
  /\ UNCHANGED <<fs, bind_log>>
  /\ UNCHANGED nonpipevars

\* uv_pipe_connect(req, p, name, cb): lines 224-284
PipeConnect(p, name, oc) ==
  LET new_sock == uv__stream_fd(p) = -1
      path == uv_strlcpy(name, SunPathSize)
      err == ConnectErr(path, oc)
      q == ListenerAt(path)
      made == oc \in {"connected", "inprogress", "openfail"}
  IN
  /\ pipe[p].close_pc = 0
  /\ ~pipe[p].connect_req /\ ~sock[p].listening /\ sock[p].cstate = "none"
  /\ plog[p].connect_cb = <<>>
  /\ oc \in {"sockfail", "openfail"} => new_sock
  /\ oc = "connfail" <=> (oc # "sockfail" /\ SysConnect(path) # 0)
  /\ pipe' = [pipe EXCEPT ![p] =
       [@ EXCEPT !.fd = IF new_sock /\ oc # "sockfail" THEN uv__socket ELSE @,
                 !.delayed_error = StoredError(err),
                 !.connect_req = TRUE,
                 !.pevents = IF err = 0 THEN @ \cup {"in", "out"} ELSE @,
                 !.fed = (err # 0)]]
  /\ sock' = [r \in Pipes |->
       IF r = p /\ made
       THEN [sock[r] EXCEPT !.cstate = IF oc = "inprogress" THEN "inprogress"
                                       ELSE "connected"]
       ELSE IF r = q /\ made THEN [sock[r] EXCEPT !.backlog = @ + 1]
       ELSE sock[r]]
  /\ plog' = [plog EXCEPT ![p] = [@ EXCEPT !.connect_err = err]]
  /\ UNCHANGED <<fs, bind_log>>
  /\ UNCHANGED nonpipevars

\* a connect in progress completes, or fails with errno e (e = 0: completes)
ConnectResolves(p, e) ==
  /\ sock[p].cstate = "inprogress"
  /\ sock' = [sock EXCEPT ![p] = [@ EXCEPT !.cstate = IF e = 0 THEN "connected" ELSE "failed",
                                           !.so_error = e]]
  /\ UNCHANGED <<pipe, fs, bind_log, plog>>
  /\ UNCHANGED nonpipevars

\* The loop runs the io_watcher of a connecting pipe, because it was fed or
\* because the socket became writable: uv__stream_io calls uv__stream_connect,
\* which takes delayed_error if set, else SO_ERROR, clears connect_req and
\* calls the connect callback with it.
StreamConnect(p) ==
  LET error == IF pipe[p].delayed_error # 0 THEN pipe[p].delayed_error
               ELSE -sock[p].so_error
  IN
  /\ pipe[p].connect_req
  /\ \/ pipe[p].fed
     \/ "out" \in pipe[p].pevents /\ sock[p].cstate \in {"connected", "failed"}
  /\ pipe' = [pipe EXCEPT ![p] = [@ EXCEPT !.connect_req = FALSE, !.delayed_error = 0,
                                            !.fed = FALSE, !.pevents = @ \ {"out"}]]
  /\ plog' = [plog EXCEPT ![p] = [@ EXCEPT !.connect_cb = Append(@, error)]]
  /\ UNCHANGED <<fs, bind_log, sock>>
  /\ UNCHANGED nonpipevars

\* a process connects to the listening pipe p
OtherConnect(p) ==
  /\ sock[p].listening
  /\ sock[p].backlog + Len(plog[p].accepted) < MaxBacklog
  /\ sock' = [sock EXCEPT ![p] = [@ EXCEPT !.backlog = @ + 1]]
  /\ UNCHANGED <<pipe, fs, bind_log, plog>>
  /\ UNCHANGED nonpipevars

RECURSIVE AcceptedBy(_)
\* the number of descriptors accept has returned to the pipes in S
AcceptedBy(S) ==
  IF S = {} THEN 0
  ELSE LET p == CHOOSE x \in S : TRUE
       IN Len(plog[p].accepted) + AcceptedBy(S \ {p})

\* uv__accept(fd): a descriptor no one holds yet
uv__accept == NumPipes + AcceptedBy(Pipes)

\* uv__pipe_accept keeping whatever accepted_fd held
StashAccepted_stale(p, sockfd) == pipe[p].accepted_fd

\* uv__pipe_accept line 302: pipe->accepted_fd = sockfd
StashAccepted(p, sockfd) == sockfd

\* The loop finds the listening pipe readable: uv__pipe_accept, lines 288-308.
\* oc is what accept() does: "ok" takes a connection from the backlog, "eagain"
\* finds none, "error" fails with EMFILE.  The connection callback runs inside;
\* consumes tells whether it calls uv_accept, which takes accepted_fd away.
PipeAccept(p, oc, consumes) ==
  LET sockfd == uv__accept
      stashed == StashAccepted(p, sockfd)
  IN
  /\ pipe[p].close_pc = 0
  /\ "in" \in pipe[p].pevents /\ pipe[p].connection_cb /\ sock[p].listening
  /\ oc = "ok" => sock[p].backlog > 0
  /\ oc = "eagain" => (sock[p].backlog = 0 /\ ~consumes)
  /\ oc = "error" => (~consumes /\ Len(plog[p].conn_cb) < MaxBacklog)
  /\ IF oc = "eagain" THEN UNCHANGED <<pipe, sock, plog>>
     ELSE IF oc = "error"
     THEN /\ plog' = [plog EXCEPT ![p] = [@ EXCEPT !.conn_cb =
                        Append(@, [status |-> -EMFILE, fd |-> pipe[p].accepted_fd])]]
          /\ UNCHANGED <<pipe, sock>>
     ELSE /\ sock' = [sock EXCEPT ![p] = [@ EXCEPT !.backlog = @ - 1]]
          /\ plog' = [plog EXCEPT ![p] = [@ EXCEPT
                        !.accepted = Append(@, sockfd),
                        !.conn_cb = Append(@, [status |-> 0, fd |-> stashed])]]
          /\ pipe' = [pipe EXCEPT ![p] = [@ EXCEPT
                        !.accepted_fd = IF consumes THEN -1 ELSE stashed,
                        !.pevents = IF consumes THEN @ ELSE @ \ {"in"}]]
  /\ UNCHANGED <<fs, bind_log>>
  /\ UNCHANGED nonpipevars

\* the user calls uv_accept after the connection callback has returned: the
\* stashed descriptor is taken and the accept watcher started again
UvAccept(p) ==
  /\ pipe[p].close_pc = 0
  /\ pipe[p].accepted_fd # -1
  /\ pipe' = [pipe EXCEPT ![p] = [@ EXCEPT !.accepted_fd = -1,
                                            !.pevents = @ \cup {"in"}]]
  /\ UNCHANGED <<fs, bind_log, sock, plog>>
  /\ UNCHANGED nonpipevars

\* --------------------------------------------- pipes: open and accept
\* uv_pipe_open(p, fd), lines 209-221: uv__stream_open adopts the descriptor,
\* whatever the pipe held before
PipeOpen(p, fd) ==
  /\ pipe[p].close_pc = 0
  /\ pipe' = [pipe EXCEPT ![p] = [@ EXCEPT !.fd = fd]]
  /\ UNCHANGED <<fs, bind_log, sock, plog>>
  /\ UNCHANGED nonpipevars

\* uv_accept(server, client) with a client pipe fresh from uv_pipe_init: the
\* client adopts the stashed descriptor and the server's accept watcher is
\* started again
UvAcceptPipe(server, client) ==
  /\ server # client
  /\ pipe[server].close_pc = 0 /\ pipe[client] = PipeInit
  /\ pipe[server].accepted_fd # -1
  /\ pipe' = [pipe EXCEPT ![server] = [@ EXCEPT !.accepted_fd = -1,
                                                 !.pevents = @ \cup {"in"}],
                          ![client] = [@ EXCEPT !.fd = pipe[server].accepted_fd]]
  /\ UNCHANGED <<fs, bind_log, sock, plog>>
  /\ UNCHANGED nonpipevars

\* ------------------------------------------------------ uv_pipe_link
RECURSIVE BitAnd(_, _)
\* a & b on non-negative ints
BitAnd(a, b) ==
  IF a = 0 \/ b = 0 THEN 0
  ELSE (a % 2) * (b % 2) + 2 * BitAnd(a \div 2, b \div 2)

\* a | b on non-negative ints
BitOr(a, b) == a + b - BitAnd(a, b)

\* ~a on an int (two's complement)
BitNot(a) == -a - 1

\* the flag sets a caller passes to uv_pipe_init
InitFlags == 0..(2 * UV_PIPE_WRITEABLE - 1)

\* uv_pipe_init lines 41-44: handle->flags after initialisation with flags
uv_pipe_init(flags) ==
  BitOr(BitOr(IF BitAnd(flags, UV_PIPE_IPC) # 0 THEN UV_HANDLE_PIPE_IPC ELSE 0,
              IF BitAnd(flags, UV_PIPE_SPAWN_SAFE) # 0 THEN UV_HANDLE_PIPE_SPAWN_SAFE ELSE 0),
        BitOr(IF BitAnd(flags, UV_PIPE_READABLE) # 0 THEN UV_STREAM_READABLE ELSE 0,
              IF BitAnd(flags, UV_PIPE_WRITEABLE) # 0 THEN UV_STREAM_WRITABLE ELSE 0))

\* a descriptor that is not open
NoDesc == [open |-> FALSE, nonblock |-> FALSE, cloexec |-> FALSE]

\* a pipe handle as uv_pipe_link sees it
LnkPipe(flags, close_cb) == [flags |-> flags, fd |-> -1, close_cb |-> close_cb]

LnkIdle ==
  [phase |-> "idle", rinit |-> 0, winit |-> 0,
   read |-> LnkPipe(0, FALSE), write |-> LnkPipe(0, FALSE),
   fds |-> <<NoDesc, NoDesc>>, ret |-> 0, failed |-> "none",
   close_cb_calls |-> 0, ebadf |-> 0]

\* lines 143 and 145: if (~(flags & UV_PIPE_SPAWN_SAFE))
WantsNonblock(flags) == BitNot(BitAnd(flags, UV_PIPE_SPAWN_SAFE)) # 0

\* line 123: if (~((read->flags|write->flags)&UV_PIPE_SPAWN_SAFE))
TriesSockNonblock(rflags, wflags) ==
  BitNot(BitAnd(BitOr(rflags, wflags), UV_PIPE_SPAWN_SAFE)) # 0

\* close(fd) on the pair: releases the descriptor, EBADF if it is not open
CloseFd(st, i) ==
  IF st.fds[i].open THEN [st EXCEPT !.fds[i] = NoDesc]
  ELSE [st EXCEPT !.ebadf = @ + 1]

\* uv_pipe_close_sync that leaves the pipe as it is
uv_pipe_close_sync_none(st) == st

\* uv_pipe_close_sync(read), lines 171-176: uv__stream_close releases the
\* descriptor and unsets it, close_cb is cleared, UV_CLOSING set, and
\* uv__finish_close marks the handle closed and calls close_cb if there is one
uv_pipe_close_sync(st) ==
  LET s1 == IF st.read.fd # -1
            THEN [CloseFd(st, st.read.fd + 1) EXCEPT !.read.fd = -1]
            ELSE st
      s2 == [s1 EXCEPT !.read.close_cb = FALSE,
                       !.read.flags = BitOr(@, UV_CLOSING)]
  IN [s2 EXCEPT !.read.flags = BitOr(@, UV_CLOSED),
                !.close_cb_calls = IF s2.read.close_cb THEN @ + 1 ELSE @]

\* two calls of uv_pipe_init, for the read and the write end; close_cb is
\* whatever the caller's memory holds
PipeInitPair(rinit, winit, rcb) ==
  /\ lnk.phase = "idle"
  /\ lnk' = [lnk EXCEPT !.phase = "inited", !.rinit = rinit, !.winit = winit,
                        !.read = LnkPipe(uv_pipe_init(rinit), rcb),
                        !.write = LnkPipe(uv_pipe_init(winit), FALSE)]
  /\ UNCHANGED nonlinkvars

\* uv_pipe_link(read, write), lines 109-169.  has_nb: the build has
\* SOCK_NONBLOCK; sp1: what socketpair does with SOCK_NONBLOCK ("ok", "einval",
\* "fail"); sp2: whether the plain socketpair succeeds; open1, open2: whether
\* uv__stream_open adopts the descriptor.
PipeLink(has_nb, sp1, sp2, open1, open2) ==
  LET r == lnk.read
      w == lnk.write
      fast == has_nb /\ TriesSockNonblock(r.flags, w.flags)
      made == [open |-> TRUE, nonblock |-> FALSE, cloexec |-> TRUE]
      pair == IF fast /\ sp1 = "ok"
              THEN <<[made EXCEPT !.nonblock = TRUE], [made EXCEPT !.nonblock = TRUE]>>
              ELSE <<[made EXCEPT !.nonblock = WantsNonblock(r.flags)],
                     [made EXCEPT !.nonblock = WantsNonblock(w.flags)]>>
      nopair == (fast /\ sp1 = "fail") \/ (~(fast /\ sp1 = "ok") /\ ~sp2)
      st0 == [lnk EXCEPT !.phase = "linked", !.fds = pair]
  IN
  /\ lnk.phase = "inited"
  \* lines 113-116: the assertions
  /\ BitAnd(r.flags, UV_STREAM_READABLE) # 0
  /\ BitAnd(w.flags, UV_STREAM_WRITABLE) # 0
  /\ BitAnd(BitAnd(w.flags, r.flags), UV_HANDLE_PIPE_IPC) = 0
  /\ lnk' =
       IF nopair
       THEN [lnk EXCEPT !.phase = "linked", !.ret = -1, !.failed = "socketpair"]
       ELSE IF ~open1
       THEN [CloseFd(CloseFd(st0, 1), 2) EXCEPT !.ret = -1, !.failed = "open_read"]
       ELSE IF ~open2
       THEN [CloseFd(CloseFd(uv_pipe_close_sync([st0 EXCEPT !.read.fd = 0]), 1), 2)
               EXCEPT !.ret = -1, !.failed = "open_write"]
       ELSE [st0 EXCEPT !.read.fd = 0, !.write.fd = 1, !.ret = 0]
  /\ UNCHANGED nonlinkvars

\* ------------------------------------------- uv_spawn: the fork (POSIX)
\* the signals of the model; SIGKILL cannot be blocked
AllSignals == {SIGHUP, SIGINT, SIGTERM, SIGKILL}

\* sigfillset(&sigset)
sigfillset == AllSignals

\* the masks a thread can have
Masks == SUBSET (AllSignals \ {SIGKILL})

\* the worker threads of the loop's thread pool
Workers == 1..NumWorkers

\* build: "linux" (vfork) or "other" (fork and a signal pipe); mask: the signal
\* mask of the thread that calls uv_spawn; entry: that mask when uv_spawn was
\* entered; sigoset: the local of uv_spawn; wrlock: loop->cloexec_lock is held
\* for writing; child: how far the child is ("none", "born", "exec", "exit"),
\* child_mask its signal mask, child_fds the worker descriptors it holds that
\* were copied without FD_CLOEXEC; wk: per worker, where it is in creating a
\* descriptor under the read lock; wfd: per worker, the state of its descriptor;
\* during: a worker created a descriptor between the fork and the parent's
\* unlock
FkIdle ==
  [build |-> "linux", pc |-> "idle", mask |-> {}, entry |-> {}, sigoset |-> {},
   wrlock |-> FALSE, child |-> "none", child_mask |-> {}, child_fds |-> {},
   wk |-> [w \in Workers |-> "idle"], wfd |-> [w \in Workers |-> "none"],
   during |-> FALSE, ret |-> 0,
   cancel |-> "enable", entry_cancel |-> "enable", cancelstate |-> "enable"]

\* the cancellation states of a thread
CancelStates == {"enable", "disable"}

\* linux, line 383: pthread_setcancelstate(PTHREAD_CANCEL_DISABLE, &cancelstate)
DisableCancel(f) ==
  IF f.build = "linux"
  THEN [f EXCEPT !.cancelstate = f.cancel, !.cancel = "disable"]
  ELSE f

\* linux, line 399: pthread_setcancelstate(cancelstate, NULL)
RestoreCancel(f) ==
  IF f.build = "linux" THEN [f EXCEPT !.cancel = f.cancelstate] ELSE f

\* sigprocmask(SIG_SETMASK, set, NULL): SIGKILL is silently left out
sigprocmask(set) == set \ {SIGKILL}

\* sigprocmask(SIG_SETMASK, &sigoset, NULL) in the parent: lines 390, 425,
\* 438, 474
RestoreMask_none(f) == f

RestoreMask(f) == [f EXCEPT !.mask = sigprocmask(f.sigoset)]

\* uv_rwlock_wrlock can return: nobody holds the lock
WrlockFree_any(f) == TRUE

WrlockFree(f) == ~f.wrlock /\ \A w \in Workers : f.wk[w] = "idle"

\* uv_rwlock_rdlock can return: no writer holds the lock
RdlockFree(f) == ~f.wrlock

\* uv_spawn up to line 378.  early: "enomem" (malloc fails, line 358),
\* "stdio" (uv__process_init_stdio fails, line 367), "ok": the signals are
\* blocked and the old mask saved in sigoset
SpawnEnter(early) ==
  /\ fk.pc = "idle"
  /\ fk' = IF early = "enomem"
           THEN [fk EXCEPT !.pc = "returned", !.entry = fk.mask,
                           !.entry_cancel = fk.cancel, !.ret = -ENOMEM]
           ELSE IF early = "stdio"
           THEN [fk EXCEPT !.pc = "returned", !.entry = fk.mask,
                           !.entry_cancel = fk.cancel, !.ret = -1]
           ELSE [fk EXCEPT !.pc = "blocked", !.entry = fk.mask,
                           !.entry_cancel = fk.cancel,
                           !.sigoset = fk.mask, !.mask = sigprocmask(sigfillset)]
  /\ UNCHANGED nonforkvars

\* not linux, lines 422-427: uv__make_pipe(signal_pipe, 0)
SpawnMakePipe(ok) ==
  /\ fk.pc = "blocked" /\ fk.build = "other"
  /\ fk' = IF ok THEN [fk EXCEPT !.pc = "piped"]
           ELSE [RestoreMask(fk) EXCEPT !.pc = "returned", !.ret = -EMFILE]
  /\ UNCHANGED nonforkvars

\* lines 382-383 and 429: uv_rwlock_wrlock(&loop->cloexec_lock) returns; on
\* linux cancellation is then disabled for the vfork
SpawnWrlock ==
  /\ fk.pc = (IF fk.build = "linux" THEN "blocked" ELSE "piped")
  /\ WrlockFree(fk)
  /\ fk' = DisableCancel([fk EXCEPT !.pc = "locked", !.wrlock = TRUE])
  /\ UNCHANGED nonforkvars

\* lines 385-392 and 431-440: vfork() or fork().  On failure the lock is
\* released and the mask restored; nothing else is undone.  The child starts with the caller's mask
\* and a copy of the descriptor table.
SpawnFork(ok) ==
  /\ fk.pc = "locked"
  /\ fk' = IF ok
           THEN [fk EXCEPT !.pc = "forked", !.child = "born", !.child_mask = fk.mask,
                   !.child_fds = {w \in Workers : fk.wfd[w] = "plain"}]
           ELSE [RestoreMask([fk EXCEPT !.wrlock = FALSE])
                   EXCEPT !.pc = "returned", !.ret = -EAGAIN]
  /\ UNCHANGED nonforkvars

\* the child, lines 394-397 and 442-445: uv__process_child_init restores the
\* mask first (line 223), then execs (ok) or reports the error and exits
ChildInit(ok) ==
  /\ fk.child = "born"
  /\ fk' = [fk EXCEPT !.child = IF ok THEN "exec" ELSE "exit",
                      !.child_mask = sigprocmask(fk.sigoset)]
  /\ UNCHANGED nonforkvars

\* the parent runs again after the fork, sets the cancellation state back
\* (linux) and releases the lock, lines 399-400 and 448.  After vfork the parent is suspended until the child has called
\* exec or _exit.
SpawnUnlock ==
  /\ fk.pc = "forked"
  /\ fk.build = "linux" => fk.child # "born"
  /\ fk' = [RestoreCancel(fk) EXCEPT !.pc = "unlocked", !.wrlock = FALSE]
  /\ UNCHANGED nonforkvars

\* lines 449-475: (not linux) read the signal pipe until the child has called
\* exec or has written its error, queue the handle, restore the mask, return
SpawnFinish ==
  /\ fk.pc = "unlocked"
  /\ fk.child # "born"
  /\ fk' = [RestoreMask(fk) EXCEPT !.pc = "returned",
                                   !.ret = IF fk.child = "exec" THEN 0 ELSE -ENOENT]
  /\ UNCHANGED nonforkvars

\* the caller goes on after uv_spawn returned and may call it again
SpawnAgain ==
  /\ fk.pc = "returned"
  /\ fk' = [fk EXCEPT !.pc = "idle", !.child = "none", !.child_mask = {},
                      !.child_fds = {}, !.sigoset = {}, !.during = FALSE, !.ret = 0]
  /\ UNCHANGED nonforkvars

\* a worker thread that creates a descriptor: uv_rwlock_rdlock returns
WorkerRdlock(w) ==
  /\ fk.wk[w] = "idle"
  /\ RdlockFree(fk)
  /\ fk' = [fk EXCEPT !.wk[w] = "locked", !.wfd[w] = "none"]
  /\ UNCHANGED nonforkvars

\* the worker creates the descriptor; it does not carry FD_CLOEXEC yet
WorkerOpen(w) ==
  /\ fk.wk[w] = "locked"
  /\ fk' = [fk EXCEPT !.wk[w] = "opened", !.wfd[w] = "plain",
                      !.during = @ \/ fk.pc = "forked"]
  /\ UNCHANGED nonforkvars

\* the worker sets FD_CLOEXEC on it
WorkerCloexec(w) ==
  /\ fk.wk[w] = "opened"
  /\ fk' = [fk EXCEPT !.wk[w] = "marked", !.wfd[w] = "cloexec"]
  /\ UNCHANGED nonforkvars

\* uv_rwlock_rdunlock
WorkerRdunlock(w) ==
  /\ fk.wk[w] = "marked"
  /\ fk' = [fk EXCEPT !.wk[w] = "idle"]
  /\ UNCHANGED nonforkvars

\* ------------------------------------------------- uv_spawn: child stdio
Descs == 0..MaxFd

\* a stdio container: -1 is an ignored slot (on unix a UV_STREAM container with
\* no stream, on Windows UV_IGNORE), n >= 0 hands the parent's descriptor n on
Containers == {-1} \cup Descs

\* the stdio arrays a caller can pass: options.stdio[0 .. stdio_count-1]
StdioOptions == UNION {[0..(n-1) -> Containers] : n \in 0..MaxStdio}

\* tab is the child's descriptor table, file[d] the parent's descriptor whose
\* open file the child's descriptor d refers to (-1: none of them), cx the
\* child's descriptors that carry FD_CLOEXEC, pcx those of the parent
StdioIdle ==
  [phase |-> "idle", parent |-> {}, pcx |-> {}, slots |-> <<>>, fd |-> 0,
   tab |-> [d \in Descs |-> "closed"], file |-> [d \in Descs |-> -1], cx |-> {}]

\* options.stdio_count
stdio_count_of(slots) == Cardinality(DOMAIN slots)

\* unix uv_spawn lines 353-355, win init_child_stdio: at least three slots
StdioCount(slots) == IF stdio_count_of(slots) < 3 THEN 3 ELSE stdio_count_of(slots)

\* pipes[fd][1] after uv_spawn lines 361-370: -1 unless the caller's container
\* named a descriptor
UseFd(slots, fd) == IF fd \in DOMAIN slots THEN slots[fd] ELSE -1

\* open("/dev/null"): the lowest descriptor that is closed, -1 (EMFILE) if none
OpenLowest(tab) ==
  IF \E d \in Descs : tab[d] = "closed"
  THEN CHOOSE d \in Descs : tab[d] = "closed" /\ \A e \in Descs : tab[e] = "closed" => d <= e
  ELSE -1

\* dup2(use_fd, fd): fd becomes a copy of use_fd; fails (unchecked) when
\* use_fd is not open
dup2(tab, use_fd, fd) ==
  IF tab[use_fd] = "closed" THEN tab ELSE [tab EXCEPT ![fd] = tab[use_fd]]

\* what dup2(use_fd, fd) does to the open file fd refers to
dup2_file(tab, file, use_fd, fd) ==
  IF tab[use_fd] = "closed" THEN file ELSE [file EXCEPT ![fd] = file[use_fd]]

\* the copy dup2 makes does not carry FD_CLOEXEC
dup2_cx(tab, cx, use_fd, fd) ==
  IF tab[use_fd] = "closed" THEN cx ELSE cx \ {fd}

\* line 249: uv__cloexec(use_fd, 0)
uv__cloexec_off(cx, use_fd) == cx \ {use_fd}

\* uv__process_child_init lines 255-256: if (close_fd != -1) uv__close(close_fd)
CloseAfterUse(close_fd, fd) == close_fd # -1

\* the fork: the child starts with a copy of the parent's descriptor table
UnixStdioFork ==
  /\ platform = "unix"
  /\ stdio.phase = "idle"
  /\ stdio' = [stdio EXCEPT !.phase = "child", !.fd = 0,
                 !.tab = [d \in Descs |-> IF d \in stdio.parent THEN "parent" ELSE "closed"],
                 !.file = [d \in Descs |-> IF d \in stdio.parent THEN d ELSE -1],
                 !.cx = stdio.pcx]
  /\ UNCHANGED <<cmd, envb>>
  /\ UNCHANGED nonprepvars

\* one round of the loop of uv__process_child_init, lines 225-257
UnixChildInitStep ==
  LET fd == stdio.fd
      given == UseFd(stdio.slots, fd)
      opened == OpenLowest(stdio.tab)
      use_fd == IF given < 0 THEN opened ELSE given
      close_fd == IF given < 0 THEN opened ELSE -1
      tab1 == IF given < 0 THEN [stdio.tab EXCEPT ![opened] = "devnull"] ELSE stdio.tab
      tab2 == IF fd = use_fd THEN tab1 ELSE dup2(tab1, use_fd, fd)
      tab3 == IF CloseAfterUse(close_fd, fd) THEN [tab2 EXCEPT ![close_fd] = "closed"] ELSE tab2
      file1 == IF given < 0 THEN [stdio.file EXCEPT ![opened] = -1] ELSE stdio.file
      file2 == IF fd = use_fd THEN file1 ELSE dup2_file(tab1, file1, use_fd, fd)
      file3 == IF CloseAfterUse(close_fd, fd) THEN [file2 EXCEPT ![close_fd] = -1] ELSE file2
      cx1 == IF given < 0 THEN stdio.cx \ {opened} ELSE stdio.cx
      cx2 == IF fd = use_fd THEN uv__cloexec_off(cx1, use_fd) ELSE dup2_cx(tab1, cx1, use_fd, fd)
      cx3 == IF CloseAfterUse(close_fd, fd) THEN cx2 \ {close_fd} ELSE cx2
  IN
  /\ platform = "unix"
  /\ stdio.phase = "child"
  /\ fd < StdioCount(stdio.slots)
  /\ IF given < 0 /\ fd >= 3
     THEN stdio' = [stdio EXCEPT !.fd = fd + 1]
     ELSE IF given < 0 /\ opened = -1
     THEN stdio' = [stdio EXCEPT !.phase = "failed"]
     ELSE stdio' = [stdio EXCEPT !.fd = fd + 1, !.tab = tab3, !.file = file3, !.cx = cx3]
  /\ UNCHANGED <<cmd, envb>>
  /\ UNCHANGED nonprepvars

\* the loop is over and the child reaches exec: lines 258-306
UnixChildExec ==
  /\ platform = "unix"
  /\ stdio.phase = "child"
  /\ stdio.fd = StdioCount(stdio.slots)
  /\ stdio' = [stdio EXCEPT !.phase = "started",
                 !.tab = [d \in Descs |-> IF d \in stdio.cx THEN "closed" ELSE stdio.tab[d]],
                 !.file = [d \in Descs |-> IF d \in stdio.cx THEN -1 ELSE stdio.file[d]],
                 !.cx = {}]
  /\ UNCHANGED <<cmd, envb>>
  /\ UNCHANGED nonprepvars

\* win init_child_stdio, lines 964-1140, for ignored and inherited slots: the
\* child's descriptor i is what the stdio buffer holds at i.  ok is whether
\* every CreateFileW(L"NUL") succeeded.
WinInitChildStdio(ok) ==
  /\ platform = "win"
  /\ stdio.phase = "idle"
  /\ \A i \in DOMAIN stdio.slots : stdio.slots[i] >= 0 => stdio.slots[i] \in stdio.parent
  /\ IF ok
     THEN stdio' = [stdio EXCEPT !.phase = "started",
            !.tab = [d \in Descs |->
                       IF d >= StdioCount(stdio.slots) THEN "closed"
                       ELSE IF UseFd(stdio.slots, d) >= 0 THEN "parent"
                       ELSE IF d <= 2 THEN "devnull" ELSE "closed"],
            !.file = [d \in Descs |->
                       IF d < StdioCount(stdio.slots) /\ UseFd(stdio.slots, d) >= 0
                       THEN UseFd(stdio.slots, d) ELSE -1]]
     ELSE stdio' = [stdio EXCEPT !.phase = "failed"]
  /\ UNCHANGED <<cmd, envb>>
  /\ UNCHANGED nonprepvars

\* ------------------------------------------ win: the child's command line
\* the characters of an argument: an ordinary one, space, tab, double quote,
\* backslash
ArgChars == {"a", " ", "\t", "\"", "\\"}

ArgStrings == UNION {[1..n -> ArgChars] : n \in 0..MaxArgLen}

\* wcspbrk(s, set) != NULL
HasAny(s, set) == \E k \in 1..Len(s) : s[k] \in set

RECURSIVE Reverse(_)
\* wcsrev
Reverse(s) == IF s = <<>> THEN <<>> ELSE Reverse(Tail(s)) \o <<Head(s)>>

RECURSIVE QuoteBackwards(_, _, _)
\* quote_cmd_arg lines 463-475: the characters written while walking the source
\* from its end (i = len .. 1), a backslash after every quote and after every
\* backslash of a run that ends at a quote or at the end
QuoteBackwards(source, i, quote_hit) ==
  IF i = 0 THEN <<>>
  ELSE IF quote_hit /\ source[i] = "\\"
       THEN <<source[i], "\\">> \o QuoteBackwards(source, i - 1, quote_hit)
  ELSE IF source[i] = "\""
       THEN <<source[i], "\\">> \o QuoteBackwards(source, i - 1, TRUE)
  ELSE <<source[i]>> \o QuoteBackwards(source, i - 1, FALSE)

\* quote_cmd_arg, lines 411-481
quote_cmd_arg(source) ==
  IF Len(source) = 0 THEN <<>>
  ELSE IF ~HasAny(source, {" ", "\t", "\""}) THEN source
  ELSE IF ~HasAny(source, {"\"", "\\"}) THEN <<"\"">> \o source \o <<"\"">>
  ELSE <<"\"">> \o Reverse(QuoteBackwards(source, Len(source), TRUE)) \o <<"\"">>

RECURSIVE make_program_args(_, _)
\* make_program_args, lines 484-539: the arguments, quoted unless verbatim,
\* with one space between them
make_program_args(args, verbatim_arguments) ==
  IF args = <<>> THEN <<>>
  ELSE (IF verbatim_arguments THEN Head(args) ELSE quote_cmd_arg(Head(args)))
       \o (IF Tail(args) = <<>> THEN <<>>
           ELSE <<" ">> \o make_program_args(Tail(args), verbatim_arguments))

\* n backslashes
Backslashes(n) == [k \in 1..n |-> "\\"]

RECURSIVE ParseFrom(_, _, _, _, _, _, _)
\* CommandLineToArgvW from position i on: cur is the argument being read (inarg
\* says one is), inq whether a quotation is open, nbs the backslashes just
\* read, acc the arguments done.  2n backslashes before a quote give n and the
\* quote opens or closes a quotation, 2n+1 give n and a literal quote,
\* backslashes before anything else stand for themselves; space and tab end an
\* argument outside a quotation.
ParseFrom(line, i, cur, inarg, inq, nbs, acc) ==
  IF i > Len(line)
  THEN IF inarg THEN Append(acc, cur \o Backslashes(nbs)) ELSE acc
  ELSE LET c == line[i] IN
    IF c = "\\" THEN ParseFrom(line, i + 1, cur, TRUE, inq, nbs + 1, acc)
    ELSE IF c = "\""
    THEN IF nbs % 2 = 1
         THEN ParseFrom(line, i + 1, cur \o Backslashes(nbs \div 2) \o <<"\"">>,
                        TRUE, inq, 0, acc)
         ELSE ParseFrom(line, i + 1, cur \o Backslashes(nbs \div 2), TRUE, ~inq, 0, acc)
    ELSE IF c \in {" ", "\t"} /\ ~inq
    THEN IF inarg
         THEN ParseFrom(line, i + 1, <<>>, FALSE, FALSE, 0,
                        Append(acc, cur \o Backslashes(nbs)))
         ELSE ParseFrom(line, i + 1, <<>>, FALSE, FALSE, 0, acc)
    ELSE ParseFrom(line, i + 1, cur \o Backslashes(nbs) \o <<c>>, TRUE, inq, 0, acc)

\* CommandLineToArgvW(GetCommandLineW())
CommandLineToArgv(line) == ParseFrom(line, 1, <<>>, FALSE, FALSE, 0, <<>>)

CmdIdle == [phase |-> "idle", args |-> <<>>, verbatim |-> FALSE, line |-> <<>>, argv |-> <<>>]

\* win uv_spawn lines 1186-1190: the command line is built from options.args
WinMakeProgramArgs ==
  /\ platform = "win"
  /\ cmd.phase = "args"
  /\ cmd' = [cmd EXCEPT !.phase = "built",
                        !.line = make_program_args(cmd.args, cmd.verbatim)]
  /\ UNCHANGED <<stdio, envb>>
  /\ UNCHANGED nonprepvars

\* the child splits the command line it was started with
ChildParsesCommandLine ==
  /\ platform = "win"
  /\ cmd.phase = "built"
  /\ cmd' = [cmd EXCEPT !.phase = "parsed", !.argv = CommandLineToArgv(cmd.line)]
  /\ UNCHANGED <<stdio, envb>>
  /\ UNCHANGED nonprepvars

\* ---------------------------------------- win: the child's environment block
\* the terminator of a string in the block
NUL == ""

UpperAlpha == <<"A", "B", "C", "D", "E", "F", "G", "H", "I", "J", "K", "L", "M",
                "N", "O", "P", "Q", "R", "S", "T", "U", "V", "W", "X", "Y", "Z">>
LowerAlpha == <<"a", "b", "c", "d", "e", "f", "g", "h", "i", "j", "k", "l", "m",
                "n", "o", "p", "q", "r", "s", "t", "u", "v", "w", "x", "y", "z">>

tolower(c) ==
  IF \E k \in 1..Len(UpperAlpha) : UpperAlpha[k] = c
  THEN LowerAlpha[CHOOSE k \in 1..Len(UpperAlpha) : UpperAlpha[k] = c]
  ELSE c

\* the k-th character of a C string, its terminator past the end
CharAt(s, k) == IF k <= Len(s) THEN s[k] ELSE NUL

\* strncmp(a, b, n) == 0: the comparison without the case folding
strncmp_eq(a, b, n) == \A k \in 1..n : CharAt(a, k) = CharAt(b, k)

\* _strnicmp(a, b, n) == 0
strnicmp_eq(a, b, n) == \A k \in 1..n : tolower(CharAt(a, k)) = tolower(CharAt(b, k))

\* required_vars, lines 580-584, as E_V (line 56) lays them out: the wide name;
\* narrow is the name with "=", len the size of the name with its terminator
required_vars ==
  << <<"S", "Y", "S", "T", "E", "M", "R", "O", "O", "T">>,
     <<"S", "Y", "S", "T", "E", "M", "D", "R", "I", "V", "E">>,
     <<"T", "E", "M", "P">> >>

narrow(i) == required_vars[i] \o <<"=">>
len_of(i) == Len(required_vars[i]) + 1

\* check_required_vars_contains_var over the whole env: required variable i is
\* marked supplied when some entry begins with its name and "=", case ignored
supplied(env_block, i) ==
  \E e \in 1..Len(env_block) : strnicmp_eq(narrow(i), env_block[e], len_of(i))

\* uv_utf8_to_utf16 of a string of ASCII characters with its terminator
Wide(s) == s \o <<NUL>>

RECURSIVE CopyEntries(_)
\* lines 609-615: the caller's entries, one after the other
CopyEntries(env_block) ==
  IF env_block = <<>> THEN <<>> ELSE Wide(Head(env_block)) \o CopyEntries(Tail(env_block))

RECURSIVE InjectFrom(_, _, _)
\* lines 617-630: for every required variable not supplied, its name, "=", the
\* value GetEnvironmentVariableW gives, and the terminator
InjectFrom(env_block, procenv, i) ==
  IF i > Len(required_vars) THEN <<>>
  ELSE (IF supplied(env_block, i) THEN <<>>
        ELSE required_vars[i] \o <<"=">> \o procenv[i] \o <<NUL>>)
       \o InjectFrom(env_block, procenv, i + 1)

\* make_program_env, lines 572-638
make_program_env(env_block, procenv) ==
  CopyEntries(env_block) \o InjectFrom(env_block, procenv, 1) \o <<NUL>>

\* GetEnvironmentVariableW returns 0: the calling process has no such variable
Unset == <<"?">>

\* lines 596-600: a required variable neither supplied nor set in the caller
MissingRequired(env_block, procenv) ==
  \E i \in 1..Len(required_vars) : ~supplied(env_block, i) /\ procenv[i] = Unset

EnvIdle == [phase |-> "idle", env_block |-> <<>>, procenv |-> <<>>, dst |-> <<>>]

\* win uv_spawn line 1170 with options.env set
WinMakeProgramEnv ==
  /\ platform = "win"
  /\ envb.phase = "env"
  /\ ~MissingRequired(envb.env_block, envb.procenv)
  /\ envb' = [envb EXCEPT !.phase = "built",
                          !.dst = make_program_env(envb.env_block, envb.procenv)]
  /\ UNCHANGED <<stdio, cmd>>
  /\ UNCHANGED nonprepvars

\* uv_fatal_error, lines 598-600: the process is aborted, no block is built
WinMakeProgramEnvFatal ==
  /\ platform = "win"
  /\ envb.phase = "env"
  /\ MissingRequired(envb.env_block, envb.procenv)
  /\ envb' = [envb EXCEPT !.phase = "fatal"]
  /\ UNCHANGED <<stdio, cmd>>
  /\ UNCHANGED nonprepvars

\* ------------------------------------------- win: the executable search
\* the characters of a file name: a letter, the dot, the backslash
FileChars == {"n", ".", "\\"}

\* the characters of PATH: a letter, the separator, the two quote characters
PathChars == {"d", ";", "\"", "'"}

\* the file arguments and the PATH values of the model
FileStrings == UNION {[1..n -> FileChars] : n \in 0..MaxFileLen}

PathStrings == UNION {[1..n -> PathChars] : n \in 0..MaxPathLen}

\* the current directory of the calling process
SearchCwd == <<"C", ":", "\\", "w">>

\* wcsrchr(L"\\/:", c) != NULL
IsSeparator(c) == c \in {"\\", "/", ":"}

\* s[from .. from+len-1], the slice a pointer and a length denote
Slice(s, from, len) == SubSeq(s, from, from + len - 1)

\* search_path lines 328-335: the index where the file name starts, after the
\* last backslash, slash or colon
file_name_start(file) ==
  LET seps == {k \in 1..Len(file) : IsSeparator(file[k])}
  IN IF seps = {} THEN 1 ELSE (CHOOSE k \in seps : \A j \in seps : j <= k) + 1

\* lines 339-340: dot = wcschr(file_name_start, L'.'); dot != NULL && dot[1] != 0
name_has_ext(name) ==
  LET dots == {k \in 1..Len(name) : name[k] = "."}
  IN dots # {} /\ (CHOOSE k \in dots : \A j \in dots : k <= j) < Len(name)

\* search_path_join_test lines 143-211: the name whose attributes are asked for
JoinName(dir, name, ext, cwd) ==
  LET rooted == Len(dir) >= 1 /\ dir[1] \in {"/", "\\"}
      drive_rel == /\ ~rooted /\ Len(dir) >= 2 /\ dir[2] = ":"
                   /\ (Len(dir) < 3 \/ dir[3] \notin {"/", "\\"})
      same_drive == Len(cwd) >= 2 /\ tolower(cwd[1]) = tolower(dir[1]) /\ cwd[2] = dir[2]
      drive_abs == ~rooted /\ ~drive_rel /\ Len(dir) > 2 /\ dir[2] = ":"
      c == IF rooted THEN SubSeq(cwd, 1, 2)
           ELSE IF drive_rel THEN (IF same_drive THEN cwd ELSE <<>>)
           ELSE IF drive_abs THEN <<>>
           ELSE cwd
      d == IF drive_rel /\ same_drive THEN SubSeq(dir, 3, Len(dir)) ELSE dir
      c1 == IF c # <<>> /\ ~IsSeparator(c[Len(c)]) THEN c \o <<"\\">> ELSE c
      d1 == IF d # <<>> /\ ~IsSeparator(d[Len(d)]) THEN d \o <<"\\">> ELSE d
      e1 == IF ext = <<>> THEN <<>>
            ELSE IF name # <<>> /\ name[Len(name)] # "." THEN <<".">> \o ext
            ELSE ext
  IN c1 \o d1 \o name \o e1

\* the extensions path_search_walk_ext tries, lines 233-260: none (only for a
\* name that has an extension), com, exe
ExtsTried(has_ext) ==
  (IF has_ext THEN << <<>> >> ELSE <<>>) \o << <<"c", "o", "m">>, <<"e", "x", "e">> >>

\* path_search_walk_ext: the first of the names that exists as a plain file,
\* <<>> (NULL) if none does
path_search_walk_ext(dir, name, cwd, has_ext, exists) ==
  LET exts == ExtsTried(has_ext)
      hits == {k \in 1..Len(exts) : JoinName(dir, name, exts[k], cwd) \in exists}
  IN IF hits = {} THEN <<>>
     ELSE JoinName(dir, name, exts[CHOOSE k \in hits : \A j \in hits : k <= j], cwd)

\* wcschr(dir_start, L';'), or the terminating NUL: lines 369-372
NextSemicolon(path, from) ==
  LET semis == {k \in from..Len(path) : path[k] = ";"}
  IN IF semis = {} THEN Len(path) + 1 ELSE CHOOSE k \in semis : \A j \in semis : k <= j

\* the quote characters of lines 383 and 388
IsQuote(c) == c \in {"\"", "'"}

\* lines 379-390: the directory passed on for the slice [dir_start, dir_end):
\* where it starts and how long it is
TrimQuotes(path, dir_start, dir_end) ==
  LET lead == IsQuote(CharAt(path, dir_start))
      dir_path == IF lead THEN dir_start + 1 ELSE dir_start
      len1 == IF lead THEN dir_end - dir_start - 1 ELSE dir_end - dir_start
      trail == IsQuote(CharAt(path, dir_path + len1 - 1))
  IN [dir_start |-> dir_start, dir_end |-> dir_end,
      dir_path |-> dir_path, dir_len |-> IF trail THEN len1 - 1 ELSE len1]

RECURSIVE PathWalk(_, _, _, _, _, _, _)
\* the loop of lines 357-396, from the state dir_end: the directories passed on
\* so far (dirs) and how the loop ends: with a result, with NULL, or never (a
\* round that leaves dir_end where it was).  A call with a negative length that
\* does not stop the program finds nothing.
PathWalk(path, dir_end, name, cwd, has_ext, exists, dirs) ==
  IF CharAt(path, dir_end) = NUL
  THEN [end |-> "null", result |-> <<>>, dirs |-> dirs]
  ELSE LET dir_start == IF dir_end # 1 THEN dir_end + 1 ELSE dir_end
           next_end == NextSemicolon(path, dir_start)
           d == TrimQuotes(path, dir_start, next_end)
           found == IF d.dir_len < 0 THEN <<>>
                    ELSE path_search_walk_ext(Slice(path, d.dir_path, d.dir_len),
                                              name, cwd, has_ext, exists)
       IN IF next_end = dir_start
          THEN IF next_end = dir_end
               THEN [end |-> "hang", result |-> <<>>, dirs |-> dirs]
               ELSE PathWalk(path, next_end, name, cwd, has_ext, exists, dirs)
          ELSE IF found # <<>>
          THEN [end |-> "found", result |-> found, dirs |-> Append(dirs, d)]
          ELSE PathWalk(path, next_end, name, cwd, has_ext, exists, Append(dirs, d))

\* search_path(file, cwd, path), lines 305-404
search_path(file, cwd, path, exists) ==
  LET start == file_name_start(file)
      name == SubSeq(file, start, Len(file))
      has_ext == name_has_ext(name)
      in_dir == path_search_walk_ext(SubSeq(file, 1, start - 1), name, cwd, has_ext, exists)
      in_cwd == path_search_walk_ext(<<>>, file, cwd, has_ext, exists)
  IN IF file = <<>> \/ file = <<".">>
     THEN [end |-> "null", result |-> <<>>, dirs |-> <<>>]
     ELSE IF start # 1
     THEN [end |-> IF in_dir # <<>> THEN "found" ELSE "null", result |-> in_dir, dirs |-> <<>>]
     ELSE IF in_cwd # <<>>
     THEN [end |-> "found", result |-> in_cwd, dirs |-> <<>>]
     ELSE PathWalk(path, 1, file, cwd, has_ext, exists, <<>>)

\* every name a search for file may ask about, over the directories that the
\* separators cut PATH into, with and without their quote characters
SearchUniverse(file, cwd, path) ==
  LET start == file_name_start(file)
      name == SubSeq(file, start, Len(file))
      cuts == {k \in 0..(Len(path) + 1) : k = 0 \/ k = Len(path) + 1 \/ path[k] = ";"}
      dirs == {SubSeq(path, a + 1, b - 1) : a \in cuts, b \in cuts}
                \cup {SubSeq(path, a + 2, b - 2) : a \in cuts, b \in cuts}
                \cup {<<>>, SubSeq(file, 1, start - 1)}
  IN {JoinName(d, n, e, cwd) :
        d \in dirs, n \in {file, name}, e \in {<<>>, <<"c", "o", "m">>, <<"e", "x", "e">>}}

\* the subsets of S with at most two members
UpTo2(S) == {{}} \cup {{x, y} : x \in S, y \in S}

SrchIdle ==
  [phase |-> "idle", file |-> <<>>, path |-> <<>>, exists |-> {},
   out |-> [end |-> "null", result |-> <<>>, dirs |-> <<>>]]

\* uv_spawn calls search_path; a call with a negative length may stop the
\* program (crashes) or go on as if the directory held nothing
WinSearchPath(crashes) ==
  LET out == search_path(srch.file, SearchCwd, srch.path, srch.exists) IN
  /\ platform = "win"
  /\ srch.phase = "idle"
  /\ crashes => \E k \in 1..Len(out.dirs) : out.dirs[k].dir_len < 0
  /\ srch' = [srch EXCEPT !.phase = IF crashes THEN "crashed"
                                      ELSE IF out.end = "hang" THEN "hung"
                                      ELSE "done",
                          !.out = out]
  /\ UNCHANGED nonsearchvars

\* uv_spawn goes on with the result, lines 1201-1208: CreateProcessW on the
\* name found, or on the file as it was given when nothing was found
WinSearchUsed ==
  /\ platform = "win"
  /\ srch.phase = "done"
  /\ srch' = [srch EXCEPT !.phase = IF srch.out.end = "found" THEN "create" ELSE "as_given"]
  /\ UNCHANGED nonsearchvars

\* ---------------------------- unix: the process queues as linked lists
\* The loop's process queues, the reaper's pending list and the queue node of
\* every process handle, with the next and prev pointers the QUEUE macros
\* read and write.

\* process handles of the linked-list model
NumNodes == 3

QHandles == 1..NumNodes

\* &loop->process_handles[i]
QueueHead(i) == NumNodes + 1 + i

\* &pending, the local list of uv__chld
PendingHead == NumNodes + H + 1

QNodes == 1..PendingHead

\* QUEUE_INIT(q): the node becomes a list of its own
QUEUE_INIT(L, q) ==
  [next |-> [L.next EXCEPT ![q] = q], prev |-> [L.prev EXCEPT ![q] = q]]

\* QUEUE_REMOVE(q): the neighbours are linked to each other; q's own pointers
\* are left as they were
QUEUE_REMOVE(L, q) ==
  [next |-> [L.next EXCEPT ![L.prev[q]] = L.next[q]],
   prev |-> [L.prev EXCEPT ![L.next[q]] = L.prev[q]]]

\* QUEUE_INSERT_TAIL(h, q): q goes between the last node of h and h
QUEUE_INSERT_TAIL(L, h, q) ==
  LET last == L.prev[h] IN
  [next |-> [L.next EXCEPT ![q] = h, ![last] = q],
   prev |-> [L.prev EXCEPT ![q] = last, ![h] = q]]

\* QUEUE_EMPTY(h)
QUEUE_EMPTY(L, h) == L.next[h] = h

\* QUEUE_HEAD(h)
QUEUE_HEAD(L, h) == L.next[h]

\* the links of rq
QLinks == [next |-> rq.next, prev |-> rq.prev]

\* the loop after uv_loop_init: the process queues are empty, no handle has
\* been given to uv_spawn (its queue node is not initialised: 0), uv__chld is
\* not running (pending does not exist: 0)
RqIdle ==
  [next |-> [n \in QNodes |-> IF n \in QHandles \/ n = PendingHead THEN 0 ELSE n],
   prev |-> [n \in QNodes |-> IF n \in QHandles \/ n = PendingHead THEN 0 ELSE n],
   pid |-> [h \in QHandles |-> 0],
   st |-> [h \in QHandles |-> "none"],
   exit_cb |-> [h \in QHandles |-> FALSE],
   active |-> [h \in QHandles |-> FALSE],
   closing |-> [h \in QHandles |-> FALSE],
   cbs |-> [h \in QHandles |-> 0],
   spawned_in_cb |-> [h \in QHandles |-> FALSE],
   pc |-> "idle", i |-> 0, q |-> 0, incb |-> 0]

\* user code runs between loop iterations and inside an exit callback
QUserCanRun == rq.pc \in {"idle", "cb"}

\* the kernel gives a pid no unreaped child has
QPidFree(pid) ==
  \A h \in QHandles : rq.pid[h] = pid => rq.st[h] \notin {"running", "exited"}

\* handles are interchangeable: the next uv_spawn call is given the unused
\* handle of the lowest number
QFresh(h) ==
  /\ rq.st[h] = "none"
  /\ \A g \in QHandles : g < h => rq.st[g] # "none"

\* uv_spawn lines 350-351, 467-472: the node is initialised, and after a
\* successful fork and exec linked at the tail of the queue of its pid
QSpawn(h, pid, exit_cb) ==
  /\ platform = "unix" /\ QUserCanRun
  /\ QFresh(h) /\ QPidFree(pid)
  /\ LET L == QUEUE_INSERT_TAIL(QUEUE_INIT(QLinks, h),
                                QueueHead(uv__process_queue(pid)), h)
     IN rq' = [rq EXCEPT !.next = L.next, !.prev = L.prev,
                         !.pid[h] = pid, !.st[h] = "running",
                         !.exit_cb[h] = exit_cb, !.active[h] = TRUE,
                         !.spawned_in_cb[h] = (rq.pc = "cb")]
  /\ UNCHANGED nonqueuevars

\* uv_spawn lines 350-351 and its error paths: the node is initialised and
\* linked nowhere
QSpawnFails(h) ==
  /\ platform = "unix" /\ QUserCanRun
  /\ QFresh(h)
  /\ LET L == QUEUE_INIT(QLinks, h)
     IN rq' = [rq EXCEPT !.next = L.next, !.prev = L.prev, !.st[h] = "failed"]
  /\ UNCHANGED nonqueuevars

\* the child of h ends
QChildExit(h) ==
  /\ platform = "unix"
  /\ rq.st[h] = "running"
  /\ rq' = [rq EXCEPT !.st[h] = "exited"]
  /\ UNCHANGED nonqueuevars

\* uv__chld lines 68-73: pending is initialised and the scan of queue 0 begins
QChldStart ==
  /\ platform = "unix"
  /\ rq.pc = "idle"
  /\ \E h \in QHandles : rq.st[h] # "none"
  /\ LET L == QUEUE_INIT(QLinks, PendingHead)
     IN rq' = [rq EXCEPT !.next = L.next, !.prev = L.prev,
                         !.pc = "scan", !.i = 0,
                         !.q = QUEUE_HEAD(L, QueueHead(0))]
  /\ UNCHANGED nonqueuevars

\* uv__chld line 77 is skipped: the cursor stays on the node
ScanAdvance_stay(L, q) == q

\* uv__chld line 77: q = QUEUE_NEXT(q), before the node can be moved
ScanAdvance(L, q) == L.next[q]

\* uv__chld lines 75-95, one turn of the scan: the node under the cursor is
\* taken as a process; when waitpid collects its child the node moves from the
\* queue to the tail of pending
QScanStep ==
  /\ platform = "unix"
  /\ rq.pc = "scan" /\ rq.q # QueueHead(rq.i)
  /\ LET process == rq.q
         q == ScanAdvance(QLinks, rq.q)
     IN IF process \notin QHandles
        THEN rq' = [rq EXCEPT !.pc = "wild"]
        ELSE IF rq.st[process] = "exited"
        THEN LET L == QUEUE_INSERT_TAIL(QUEUE_REMOVE(QLinks, process),
                                        PendingHead, process)
             IN rq' = [rq EXCEPT !.next = L.next, !.prev = L.prev,
                                 !.st[process] = "reaped", !.q = q]
        ELSE rq' = [rq EXCEPT !.q = q]
  /\ UNCHANGED nonqueuevars

\* uv__chld line 75: the cursor is back at the head of the queue
QScanDone ==
  /\ platform = "unix"
  /\ rq.pc = "scan" /\ rq.q = QueueHead(rq.i)
  /\ rq' = [rq EXCEPT !.pc = "drain", !.q = 0]
  /\ UNCHANGED nonqueuevars

\* the node is unlinked and keeps its pointers
DrainUnlink_noinit(L, q) == QUEUE_REMOVE(L, q)

\* uv__chld lines 99-100: QUEUE_REMOVE(q); QUEUE_INIT(q)
DrainUnlink(L, q) == QUEUE_INIT(QUEUE_REMOVE(L, q), q)

\* uv__chld lines 97-116, one turn of the drain: the head of pending is
\* unlinked, the handle stopped and its exit callback, if any, entered
QDrain ==
  /\ platform = "unix"
  /\ rq.pc = "drain" /\ ~QUEUE_EMPTY(QLinks, PendingHead)
  /\ LET q == QUEUE_HEAD(QLinks, PendingHead)
         L == DrainUnlink(QLinks, q)
     IN IF q \notin QHandles
        THEN rq' = [rq EXCEPT !.pc = "wild"]
        ELSE IF rq.exit_cb[q]
        THEN rq' = [rq EXCEPT !.next = L.next, !.prev = L.prev,
                              !.active[q] = FALSE, !.cbs[q] = @ + 1,
                              !.pc = "cb", !.incb = q]
        ELSE rq' = [rq EXCEPT !.next = L.next, !.prev = L.prev,
                              !.active[q] = FALSE]
  /\ UNCHANGED nonqueuevars

\* uv__chld lines 71-73, 97, 118-119: pending is empty; the next queue is
\* scanned, or uv__chld returns
QDrainDone ==
  /\ platform = "unix"
  /\ rq.pc = "drain" /\ QUEUE_EMPTY(QLinks, PendingHead)
  /\ IF rq.i + 1 < H
     THEN rq' = [rq EXCEPT !.pc = "scan", !.i = @ + 1,
                           !.q = QUEUE_HEAD(QLinks, QueueHead(rq.i + 1))]
     ELSE rq' = [rq EXCEPT !.pc = "idle", !.i = 0]
  /\ UNCHANGED nonqueuevars

\* the exit callback returns into the drain loop
QCbReturn ==
  /\ platform = "unix"
  /\ rq.pc = "cb"
  /\ rq' = [rq EXCEPT !.pc = "drain", !.incb = 0]
  /\ UNCHANGED nonqueuevars

\* uv_close on a process handle: uv__process_close lines 513-514
QClose(h) ==
  /\ platform = "unix" /\ QUserCanRun
  /\ rq.st[h] # "none" /\ ~rq.closing[h]
  /\ LET L == QUEUE_REMOVE(QLinks, h)
     IN rq' = [rq EXCEPT !.next = L.next, !.prev = L.prev,
                         !.closing[h] = TRUE, !.active[h] = FALSE]
  /\ UNCHANGED nonqueuevars

\* ------------------------------- unix: uv_spawn prepares the stdio (parent)
\* One uv_spawn call in the parent, from its entry to its return: the pipes
\* array, the loop over the caller's containers, and the clean-up of the
\* error label.

\* a caller's stdio container: UV_STREAM with data.stream NULL, UV_STREAM with
\* a stream whose io_watcher.fd is fd, or UV_RAW_FD with data.fd fd
SioContainers ==
  {[type |-> "UV_STREAM", stream |-> "null", fd |-> -1]}
    \cup {[type |-> t, stream |-> "set", fd |-> d] :
            t \in {"UV_STREAM", "UV_RAW_FD"}, d \in {-1} \cup Descs}

\* options->stdio[0 .. options->stdio_count - 1]; entry i is element i + 1
SioOptions == UNION {[1..n -> SioContainers] : n \in 0..MaxStdio}

SioIdle ==
  [pc |-> "idle", options |-> <<>>, stdio_count |-> 0, pipes |-> <<>>, i |-> 0,
   err |-> 0, failed |-> "none", reads |-> {}, closed |-> {},
   init |-> FALSE, active |-> FALSE, queued |-> FALSE, forked |-> FALSE, ret |-> 0]

\* uv__process_init_stdio lines 159-185: the descriptor for the child's side
\* of the container (fds[1]) and the return value
uv__process_init_stdio(container) ==
  IF container.type = "UV_STREAM" /\ container.stream = "null"
  THEN [err |-> 0, fd |-> -1]
  ELSE IF container.fd = -1
  THEN [err |-> -1, fd |-> -1]
  ELSE [err |-> 0, fd |-> container.fd]

\* line 482: for (i = 0; i < stdio_count; i++), stdio_count as set on lines
\* 353-355
CleanupBound(s) == s.stdio_count

\* uv_spawn lines 350-364: the handle is initialised, stdio_count is at least
\* 3, pipes is allocated (malloc_ok) and filled with -1
SioEnter(malloc_ok) ==
  /\ platform = "unix"
  /\ sio.pc = "idle"
  /\ LET n == StdioCount(sio.options) IN
     sio' = IF malloc_ok
            THEN [sio EXCEPT !.pc = "init_stdio", !.init = TRUE, !.stdio_count = n,
                             !.pipes = [k \in 1..n |-> <<-1, -1>>], !.i = 0]
            ELSE [sio EXCEPT !.pc = "returned", !.init = TRUE, !.stdio_count = n,
                             !.failed = "malloc", !.ret = -ENOMEM]
  /\ UNCHANGED nonsiovars

\* lines 366-370, one turn: uv__process_init_stdio(options->stdio + i, pipes[i])
SioInitStdio ==
  /\ platform = "unix"
  /\ sio.pc = "init_stdio" /\ sio.i < Len(sio.options)
  /\ LET r == uv__process_init_stdio(sio.options[sio.i + 1]) IN
     sio' = IF r.err # 0
            THEN [sio EXCEPT !.pipes[sio.i + 1][2] = r.fd, !.err = r.err,
                             !.failed = "stdio", !.pc = "error", !.i = 0]
            ELSE [sio EXCEPT !.pipes[sio.i + 1][2] = r.fd, !.i = @ + 1]
  /\ UNCHANGED nonsiovars

\* lines 372-479: every container was accepted; the fork fails (goto error)
\* or the child exists and the handle is queued and started
SioFork(ok) ==
  /\ platform = "unix"
  /\ sio.pc = "init_stdio" /\ sio.i = Len(sio.options)
  /\ sio' = IF ok
            THEN [sio EXCEPT !.pc = "returned", !.forked = TRUE, !.queued = TRUE,
                             !.active = TRUE, !.ret = 0]
            ELSE [sio EXCEPT !.pc = "error", !.err = -EAGAIN, !.failed = "fork",
                             !.i = 0]
  /\ UNCHANGED nonsiovars

\* lines 482-490, one turn of the clean-up: options->stdio[i] is read; the
\* pipes of a UV_STREAM container without stream are closed.  An entry past
\* the caller's array holds anything or cannot be read at all (fault); pipes[i]
\* is <<-1, -1>> for it, so nothing is closed whatever it holds.
SioCleanup(fault) ==
  /\ platform = "unix"
  /\ sio.pc = "error" /\ sio.i < CleanupBound(sio)
  /\ fault => sio.i >= Len(sio.options)
  /\ LET i == sio.i
         c == IF i < Len(sio.options) THEN sio.options[i + 1]
              ELSE [type |-> "UV_STREAM", stream |-> "null", fd |-> -1]
         closes == IF c.type = "UV_STREAM" /\ c.stream = "null"
                   THEN {sio.pipes[i + 1][k] : k \in 1..2} \ {-1}
                   ELSE {}
     IN sio' = IF fault
               THEN [sio EXCEPT !.reads = @ \cup {i}, !.pc = "crashed"]
               ELSE [sio EXCEPT !.reads = @ \cup {i}, !.closed = @ \cup closes,
                                !.i = @ + 1]
  /\ UNCHANGED nonsiovars

\* lines 492-494: free(pipes); return err
SioReturn ==
  /\ platform = "unix"
  /\ sio.pc = "error" /\ sio.i >= CleanupBound(sio)
  /\ sio' = [sio EXCEPT !.pc = "returned", !.ret = sio.err]
  /\ UNCHANGED nonsiovars

\* ------------------------------------- unix: a child reaped behind libuv
\* code of the application calls wait()/waitpid() itself and reaps a terminated
\* child of the loop: the kernel forgets the pid, and the waitpid of uv__chld
\* (line 79) will fail with ECHILD (lines 86-90)
ForeignWait(pid) ==
  /\ platform = "unix" /\ UserCanRun
  /\ os[pid].st = "exited"
  /\ os' = [os EXCEPT ![pid] = [st |-> "free", status |-> 0, h |-> 0]]
  /\ UNCHANGED <<platform, proc, sp, process_handles, chld, sigchld, child_watcher,
                 cb, incb, posted, pool, kill_log, fate>>
  /\ UNCHANGED nonprocvars

\* ------------------------------------------------------ specification
\* the process subsystem before any handle is spawned
InitProc ==
  /\ proc = [h \in Handles |-> ProcInit]
  /\ sp = [h \in Handles |-> [res |-> "none", ret |-> 0, cerr |-> 0]]
  /\ process_handles = [i \in 0..(H-1) |-> <<>>]
  /\ chld = [phase |-> "idle", i |-> 0, pending |-> <<>>]
  /\ sigchld = FALSE
  /\ child_watcher = FALSE
  /\ os = [p \in Pids |-> [st |-> "free", status |-> 0, h |-> 0]]
  /\ cb = [h \in Handles |-> [count |-> 0, exit_status |-> 0, term_signal |-> 0,
                              active |-> FALSE]]
  /\ incb = 0
  /\ posted = {}
  /\ pool = {}
  /\ kill_log = [signum |-> 0, ret |-> 0, err |-> "none"]
  /\ fate = [h \in Handles |-> [kind |-> "none", val |-> 0, oksig |-> 0]]

\* the pipe handles after uv_pipe_init, over a filesystem with no socket nodes
InitLoopHandles ==
  /\ pipe = [p \in Pipes |-> PipeInit]
  /\ fs = [n \in Names |-> NoNode]
  /\ bind_log = [p |-> 0, name |-> NoName, ret |-> 0]
  /\ sock = [p \in Pipes |-> SockInit]
  /\ plog = [p \in Pipes |-> LogInit]
  /\ lnk = LnkIdle
  /\ rq = RqIdle

\* and no uv_spawn call is preparing its stdio
InitPipeHandles ==
  /\ InitLoopHandles
  /\ sio = SioIdle

\* no uv_spawn call is searching for its program
InitSearch == srch = SrchIdle

\* and no uv_spawn call is at its fork
InitPipes ==
  /\ InitPipeHandles
  /\ fk = FkIdle
  /\ InitSearch

\* no uv_spawn call is preparing a child
InitPrep ==
  /\ stdio = StdioIdle
  /\ cmd = CmdIdle
  /\ envb = EnvIdle

Init ==
  /\ platform \in {"unix", "win"}
  /\ InitProc
  /\ InitPipes
  /\ InitPrep

Next ==
  \/ \E h \in Handles : UnixSpawnEarlyError(h, -ENOMEM)
  \/ \E h \in Handles : UnixSpawnEarlyError(h, -1)
  \/ \E h \in Handles : UnixSpawnForkFails(h)
  \/ \E h \in Handles, ecb \in BOOLEAN, e \in {ENOENT, EACCES} : UnixSpawnExecFails(h, ecb, e)
  \/ \E h \in Handles, ecb \in BOOLEAN : UnixSpawnOk(h, ecb)
  \/ \E pid \in Pids, code \in ExitCodes : UnixChildExit(pid, code)
  \/ ChldStart
  \/ ChldPending
  \/ ChldNext
  \/ ExitCbReturn
  \/ \E h \in Handles, signum \in KillSignals : UnixKill(h, signum)
  \/ \E h \in Handles : UnixClose(h)
  \/ \E h \in Handles : WinSpawnNotSup(h)
  \/ \E h \in Handles, ecb \in BOOLEAN : WinSpawnSetupError(h, ecb)
  \/ \E h \in Handles, ecb \in BOOLEAN : WinSpawnOk(h, ecb)
  \/ \E h \in Handles, ecb \in BOOLEAN : WinSpawnCreateFails(h, ecb)
  \/ \E h \in Handles : SpawnFailure(h)
  \/ \E h \in Handles : ExitWaitCallback(h)
  \/ \E h \in Handles : CloseWaitCallback(h)
  \/ \E pid \in Pids, code \in ExitCodes : WinChildExit(pid, code)
  \/ \E pid \in Pids : WinTerminated(pid)
  \/ \E h \in Handles : WinProcExit(h)
  \/ \E h \in Handles, signum \in KillSignals : WinKill(h, signum)
  \/ \E h \in Handles : WinClose(h)
  \/ \E h \in Handles : WinProcClose(h)
  \/ \E h \in Handles : WinEndgame(h)

vars == <<procvars, pipevars, connvars, prepvars, linkvars, forkvars, searchvars, queuevars,
          siovars>>

Spec == Init /\ [][Next]_vars

\* the pipes of a unix build, with the other processes that share the filesystem
PipeSpecInit ==
  /\ platform = "unix"
  /\ InitProc
  /\ InitPipes
  /\ InitPrep

PipeNext ==
  \/ \E p \in Pipes, name \in Names : PipeBindInval(p, name)
  \/ \E p \in Pipes, name \in Names, err \in {-ENOMEM, -EMFILE} : PipeBindEarlyError(p, name, err)
  \/ \E p \in Pipes, name \in Names, e \in {EADDRINUSE, ENOENT, EACCES} : PipeBindFails(p, name, e)
  \/ \E p \in Pipes, name \in Names : PipeBindOk(p, name)
  \/ \E p \in Pipes : PipeCloseUnlink(p)
  \/ \E p \in Pipes : PipeCloseStream(p)
  \/ \E path \in Paths : OtherBind(path)
  \/ \E path \in Paths : OtherRebind(path)
  \/ \E path \in Paths, unlinks \in BOOLEAN : OtherClose(path, unlinks)

PipeSpec == PipeSpecInit /\ [][PipeNext]_vars

\* the names the pipes bind and connect to while they listen and connect
ConnNames == {n \in Names : Len(n) = 1}

\* bind, listen, accept and connect on a unix build
ConnNext ==
  \/ \E p \in Pipes, name \in ConnNames : PipeBindOk(p, name)
  \/ \E p \in Pipes : PipeListen(p)
  \/ \E p \in Pipes, name \in ConnNames, oc \in ConnectOutcomes : PipeConnect(p, name, oc)
  \/ \E p \in Pipes, e \in {0, ECONNREFUSED} : ConnectResolves(p, e)
  \/ \E p \in Pipes : StreamConnect(p)
  \/ \E p \in Pipes : OtherConnect(p)
  \/ \E p \in Pipes, oc \in {"ok", "eagain", "error"}, consumes \in BOOLEAN :
       PipeAccept(p, oc, consumes)
  \/ \E p \in Pipes : UvAccept(p)
  \/ \E path \in ConnNames : OtherBind(path)
  \/ \E path \in ConnNames, unlinks \in BOOLEAN : OtherClose(path, unlinks)

ConnSpec == PipeSpecInit /\ [][ConnNext]_vars

\* one uv_spawn call on either build, over every set of descriptors the parent
\* may have open and every stdio array the caller may pass
StdioSpecInit ==
  /\ platform \in {"unix", "win"}
  /\ InitProc
  /\ InitPipes
  /\ \E par \in SUBSET Descs, slots \in StdioOptions :
       \E pcx \in SUBSET par :
         stdio = [StdioIdle EXCEPT !.parent = par, !.pcx = pcx, !.slots = slots]
  /\ cmd = CmdIdle
  /\ envb = EnvIdle

StdioNext ==
  \/ UnixStdioFork
  \/ UnixChildInitStep
  \/ UnixChildExec
  \/ \E ok \in BOOLEAN : WinInitChildStdio(ok)

StdioSpec == StdioSpecInit /\ [][StdioNext]_vars

\* the argument vectors of a uv_spawn call: a plain program name, then up to
\* MaxArgs arguments over ArgChars
ArgVectors ==
  UNION {[1..n -> ArgStrings] : n \in 0..MaxArgs}

\* one Windows uv_spawn call building the command line of its child
CmdSpecInit ==
  /\ platform = "win"
  /\ InitProc
  /\ InitPipes
  /\ stdio = StdioIdle
  /\ envb = EnvIdle
  /\ \E rest \in ArgVectors, v \in BOOLEAN :
       cmd = [CmdIdle EXCEPT !.phase = "args", !.args = <<<<"a">>>> \o rest,
                             !.verbatim = v]

CmdNext ==
  \/ WinMakeProgramArgs
  \/ ChildParsesCommandLine

CmdSpec == CmdSpecInit /\ [][CmdNext]_vars

\* the entries a caller's env is drawn from: required names in several letter
\* cases, names that only begin like a required one, other names, empty values
EnvEntries ==
  { <<"S", "Y", "S", "T", "E", "M", "R", "O", "O", "T", "=", "c">>,
    <<"S", "y", "s", "t", "e", "m", "R", "o", "o", "t", "=", "c">>,
    <<"s", "y", "s", "t", "e", "m", "d", "r", "i", "v", "e", "=", "c">>,
    <<"T", "E", "M", "P", "=", "c">>,
    <<"t", "e", "m", "p", "=">>,
    <<"T", "E", "M", "P", "X", "=", "c">>,
    <<"S", "Y", "S", "T", "E", "M", "=", "c">>,
    <<"P", "=", "c">> }

EnvBlocks == UNION {[1..n -> EnvEntries] : n \in 0..MaxEnv}

\* the calling process's values of the three required variables
ProcEnvs == [1..Len(required_vars) -> {<<"w">>, Unset}]

\* one Windows uv_spawn call building the environment block of its child
EnvSpecInit ==
  /\ platform = "win"
  /\ InitProc
  /\ InitPipes
  /\ stdio = StdioIdle
  /\ cmd = CmdIdle
  /\ \E b \in EnvBlocks, pe \in ProcEnvs :
       envb = [EnvIdle EXCEPT !.phase = "env", !.env_block = b, !.procenv = pe]

EnvNext ==
  \/ WinMakeProgramEnv
  \/ WinMakeProgramEnvFatal

EnvSpec == EnvSpecInit /\ [][EnvNext]_vars

\* the POSIX process life cycle in an application that may also wait for its
\* children itself
ReapNext ==
  \/ \E h \in Handles, ecb \in BOOLEAN, e \in {ENOENT, EACCES} : UnixSpawnExecFails(h, ecb, e)
  \/ \E h \in Handles, ecb \in BOOLEAN : UnixSpawnOk(h, ecb)
  \/ \E pid \in Pids, code \in ExitCodes : UnixChildExit(pid, code)
  \/ ChldStart
  \/ ChldPending
  \/ ChldNext
  \/ ExitCbReturn
  \/ \E h \in Handles, signum \in KillSignals : UnixKill(h, signum)
  \/ \E h \in Handles : UnixClose(h)
  \/ \E pid \in Pids : ForeignWait(pid)

ReapSpec == PipeSpecInit /\ [][ReapNext]_vars

\* the names the pipes bind and connect to: two distinct paths
RoleNames == {n \in Names : Len(n) < SunPathSize}

\* every call that gives a pipe a descriptor: bind, listen, connect, open, accept
RoleNext ==
  \/ \E p \in Pipes, name \in RoleNames : PipeBindInval(p, name)
  \/ \E p \in Pipes, name \in RoleNames : PipeBindOk(p, name)
  \/ \E p \in Pipes : PipeListen(p)
  \/ \E p \in Pipes, name \in RoleNames, oc \in ConnectOutcomes : PipeConnect(p, name, oc)
  \/ \E p \in Pipes, e \in {0, ECONNREFUSED} : ConnectResolves(p, e)
  \/ \E p \in Pipes : StreamConnect(p)
  \/ \E p \in Pipes : OtherConnect(p)
  \/ \E p \in Pipes, oc \in {"ok", "eagain"}, consumes \in BOOLEAN : PipeAccept(p, oc, consumes)
  \/ \E server, client \in Pipes : UvAcceptPipe(server, client)
  \/ \E p \in Pipes, fd \in Fds \ OpenFds : PipeOpen(p, fd)

RoleSpec == PipeSpecInit /\ [][RoleNext]_vars

\* a pair of pipes initialised and linked
LinkNext ==
  \/ \E rinit, winit \in InitFlags, rcb \in BOOLEAN : PipeInitPair(rinit, winit, rcb)
  \/ \E has_nb \in BOOLEAN, sp1 \in {"ok", "einval", "fail"}, sp2, open1, open2 \in BOOLEAN :
       PipeLink(has_nb, sp1, sp2, open1, open2)

LinkSpec == PipeSpecInit /\ [][LinkNext]_vars

\* uv_spawn calls of one thread on either kind of POSIX build, whatever its
\* signal mask and cancellation state, next to the worker threads that create descriptors
ForkSpecInit ==
  /\ platform = "unix"
  /\ InitProc
  /\ InitPipeHandles
  /\ InitPrep
  /\ \E b \in {"linux", "other"}, m \in Masks, c \in CancelStates :
       fk = [FkIdle EXCEPT !.build = b, !.mask = m, !.cancel = c]
  /\ InitSearch

ForkNext ==
  \/ \E early \in {"enomem", "stdio", "ok"} : SpawnEnter(early)
  \/ \E ok \in BOOLEAN : SpawnMakePipe(ok)
  \/ SpawnWrlock
  \/ \E ok \in BOOLEAN : SpawnFork(ok)
  \/ \E ok \in BOOLEAN : ChildInit(ok)
  \/ SpawnUnlock
  \/ SpawnFinish
  \/ SpawnAgain
  \/ \E w \in Workers : WorkerRdlock(w)
  \/ \E w \in Workers : WorkerOpen(w)
  \/ \E w \in Workers : WorkerCloexec(w)
  \/ \E w \in Workers : WorkerRdunlock(w)

ForkSpec == ForkSpecInit /\ [][ForkNext]_vars

\* one search_path call on Windows for a file of files and a PATH of paths,
\* with up to two existing files among the names it can ask about
SearchInit(files, paths) ==
  /\ platform = "win"
  /\ InitProc
  /\ InitPipeHandles
  /\ fk = FkIdle
  /\ InitPrep
  /\ \E file \in files, path \in paths :
       \E exists \in UpTo2(SearchUniverse(file, SearchCwd, path)) :
         srch = [SrchIdle EXCEPT !.file = file, !.path = path, !.exists = exists]

\* every file argument, over the PATH values without quote characters
SearchSpecInit == SearchInit(FileStrings, {p \in PathStrings : \A k \in 1..Len(p) : ~IsQuote(p[k])})

\* a plain file name, over every PATH value
PathEntrySpecInit == SearchInit({<<"n">>, <<"n", ".", "n">>}, PathStrings)

SearchNext ==
  \/ \E crashes \in BOOLEAN : WinSearchPath(crashes)
  \/ WinSearchUsed

SearchSpec == SearchSpecInit /\ [][SearchNext]_vars

PathEntrySpec == PathEntrySpecInit /\ [][SearchNext]_vars

\* the process handles of one loop as linked lists: spawns, closes, children
\* ending and the reaper
QueueNext ==
  \/ \E h \in QHandles, pid \in Pids, exit_cb \in BOOLEAN : QSpawn(h, pid, exit_cb)
  \/ \E h \in QHandles : QSpawnFails(h)
  \/ \E h \in QHandles : QChildExit(h)
  \/ QChldStart
  \/ QScanStep
  \/ QScanDone
  \/ QDrain
  \/ QDrainDone
  \/ QCbReturn
  \/ \E h \in QHandles : QClose(h)

\* one POSIX uv_spawn call for any stdio array a caller can pass
SioSpecInit ==
  /\ platform = "unix"
  /\ InitProc
  /\ InitLoopHandles
  /\ fk = FkIdle
  /\ InitSearch
  /\ InitPrep
  /\ \E options \in SioOptions : sio = [SioIdle EXCEPT !.options = options]

SioNext ==
  \/ \E malloc_ok \in BOOLEAN : SioEnter(malloc_ok)
  \/ SioInitStdio
  \/ \E ok \in BOOLEAN : SioFork(ok)
  \/ \E fault \in BOOLEAN : SioCleanup(fault)
  \/ SioReturn

SioSpec == SioSpecInit /\ [][SioNext]_vars

\* a step of uv__chld itself
ReaperStep == QScanStep \/ QScanDone \/ QDrain \/ QDrainDone

QueueSpec == PipeSpecInit /\ [][QueueNext]_vars

\* uv__chld is straight-line code on the loop thread, so it takes its next
\* step; the user's exit callback is taken to return
QueueLiveSpec == QueueSpec /\ WF_vars(ReaperStep) /\ WF_vars(QCbReturn)

\* ------------------------------------------------------------ claims
\* what the loop, the thread pool and the OS do on their own
LoopNext ==
  \/ ChldStart \/ ChldPending \/ ChldNext \/ ExitCbReturn
  \/ \E h \in Handles : SpawnFailure(h) \/ ExitWaitCallback(h) \/ CloseWaitCallback(h)
  \/ \E h \in Handles : WinProcExit(h) \/ WinProcClose(h) \/ WinEndgame(h)
  \/ \E pid \in Pids : WinTerminated(pid)

\* no event is pending: everything that was going to be delivered has been
Quiescent == ~ENABLED LoopNext

\* the child of handle h has terminated
ChildExited(h) == fate[h].kind \in {"exit", "signal", "killed"}

InQueue(h, i) == InSeq(process_handles[i], h)

\* C5: on POSIX uv_spawn returns 0 exactly when the child reached exec and else
\* the error the child reported; the handle is linked (in the queue of index
\* pid mod H, and in no other) and activated by the spawn exactly when that value
\* is 0; after a failed exec it is in no queue and inactive.
C5_PosixSpawnResult ==
  /\ [](\A h \in Handles : (platform = "unix" /\ sp[h].res \in {"ok", "execfail"}) =>
          /\ (sp[h].ret = 0) <=> (sp[h].res = "ok")
          /\ sp[h].ret = -sp[h].cerr
          /\ \A i \in 0..(H-1) :
               InQueue(h, i) => (sp[h].ret = 0 /\ i = proc[h].pid % H)
          /\ proc[h].active => sp[h].ret = 0
          /\ sp[h].res = "execfail" =>
               (~Queued(h) /\ ~InSeq(chld.pending, h) /\ ~proc[h].active))
  /\ [][\A h \in Handles :
          (platform = "unix" /\ sp[h].res = "none" /\ sp'[h].res = "ok") =>
             (InSeq(process_handles'[proc'[h].pid % H], h) /\ proc'[h].active)]_vars

C5_Witness ==
  /\ platform = "unix"
  /\ \E h \in Handles : sp[h].res = "ok" /\ Queued(h) /\ proc[h].active
  /\ \E h \in Handles : sp[h].res = "execfail" /\ sp[h].ret = -EACCES

\* C6: on POSIX the callback of a child that called exit(c) gets exit_status
\* c mod 256 and term_signal 0; the callback of a child killed by signal s gets
\* exit_status 0 and term_signal s.
C6_StatusDecoding ==
  \A h \in Handles : (platform = "unix" /\ cb[h].count >= 1) =>
    /\ fate[h].kind = "exit" =>
         (cb[h].exit_status = fate[h].val % 256 /\ cb[h].term_signal = 0)
    /\ fate[h].kind = "signal" =>
         (cb[h].exit_status = 0 /\ cb[h].term_signal = fate[h].val)

C6_Witness ==
  /\ platform = "unix"
  /\ \E h \in Handles : cb[h].count = 1 /\ fate[h].kind = "signal" /\ cb[h].term_signal = SIGTERM
  /\ \E h \in Handles : cb[h].count = 1 /\ fate[h].kind = "exit" /\ cb[h].exit_status = 3

\* the child of handle h has not terminated and nobody has begun terminating it
ChildRunning(h) == fate[h].kind = "none"

\* a uv_process_kill(h, signum) step on a handle whose spawn succeeded
KillStep(h, signum) == sp[h].res = "ok" /\ (UnixKill(h, signum) \/ WinKill(h, signum))

TermSignals == {SIGTERM, SIGKILL, SIGINT}

\* C7 (as amended): uv_process_kill with signum 0 returns OK while the child
\* runs; once the child has exited it returns SRCH on Windows unless the exit
\* code equals STILL_ACTIVE (then OK), and on POSIX only when no process with the
\* handle's pid exists any more (an exited child not yet reaped still answers
\* OK); on Windows TERM, KILL and INT terminate a running child with exit code 1
\* and every other non-zero signal returns NOSYS without affecting the child.
C7_KillResult ==
  /\ [][\A h \in Handles, s \in KillSignals : KillStep(h, s) =>
          /\ (s = 0 /\ ChildRunning(h)) => kill_log'.err = "OK"
          /\ (s = 0 /\ ChildExited(h) /\ platform = "win") =>
               kill_log'.err = IF os[proc[h].process_handle].status = STILL_ACTIVE
                               THEN "OK" ELSE "ESRCH"
          /\ (s = 0 /\ ChildExited(h) /\ platform = "unix") =>
               kill_log'.err = IF os[proc[h].pid].st = "free" THEN "ESRCH" ELSE "OK"
          /\ (platform = "win" /\ s \in TermSignals /\ ChildRunning(h)) =>
               /\ kill_log'.err = "OK"
               /\ os'[proc[h].process_handle].st = "terminating"
               /\ os'[proc[h].process_handle].status = 1
          /\ (platform = "win" /\ s \notin TermSignals /\ s # 0) =>
               (kill_log'.err = "ENOSYS" /\ os' = os /\ proc' = proc)]_vars
  /\ [](\A h \in Handles : (platform = "win" /\ proc[h].process_handle # INVALID) =>
          /\ (fate[h].kind = "killed" /\ cb[h].count = 1) => cb[h].exit_status = 1
          /\ \A s \in TermSignals :
               uv__kill(os, proc[h].process_handle, s)
                 = uv__kill(os, proc[h].process_handle, SIGTERM))

C7_Witness ==
  /\ platform = "win"
  /\ kill_log = [signum |-> 0, ret |-> -1, err |-> "ESRCH"]
  /\ \E h \in Handles : fate[h].kind = "killed" /\ cb[h].count = 1 /\ cb[h].exit_status = 1

\* C7 as stated: signum 0 returns OK while the child is running and SRCH once it
\* has exited; on Windows TERM, KILL and INT terminate the child with exit code 1
\* and every other signal returns NOSYS without affecting the child.
C7_Original ==
  [][\A h \in Handles, s \in KillSignals : KillStep(h, s) =>
       /\ (s = 0 /\ ChildRunning(h)) => kill_log'.err = "OK"
       /\ (s = 0 /\ ChildExited(h)) => kill_log'.err = "ESRCH"
       /\ (platform = "win" /\ s \in TermSignals /\ ChildRunning(h)) =>
            /\ kill_log'.err = "OK"
            /\ os'[proc[h].process_handle].status = 1
       /\ (platform = "win" /\ s \notin TermSignals /\ s # 0) =>
            (kill_log'.err = "ENOSYS" /\ os' = os /\ proc' = proc)]_vars

\* C8 (as amended): on Windows the exit_signal given to the exit callback is the
\* signal of the last uv_process_kill call on the handle that succeeded (a
\* successful signum 0 probe included) and 0 when none succeeded; a kill call
\* that fails does not change it.
C8_ExitSignal ==
  [][\A h \in Handles : platform = "win" =>
       /\ cb'[h].count > cb[h].count => cb'[h].term_signal = fate[h].oksig
       /\ \A s \in KillSignals :
            (WinKill(h, s) /\ kill_log'.ret # 0) =>
               proc'[h].exit_signal = proc[h].exit_signal]_vars

C8_Witness ==
  /\ platform = "win"
  /\ \E h \in Handles : /\ cb[h].count = 1 /\ cb[h].term_signal = SIGTERM
                        /\ cb[h].exit_status = 1 /\ fate[h].kind = "killed"
  /\ kill_log.ret = -1

\* C8 as stated: the exit_signal given to the exit callback is the signal of the
\* kill call that terminated the child, and 0 when the child was never killed; a
\* kill call that fails does not change it.
C8_Original ==
  [][\A h \in Handles : platform = "win" =>
       /\ cb'[h].count > cb[h].count =>
            cb'[h].term_signal = IF fate[h].kind = "killed" THEN fate[h].val ELSE 0
       /\ \A s \in KillSignals :
            (WinKill(h, s) /\ kill_log'.ret # 0) =>
               proc'[h].exit_signal = proc[h].exit_signal]_vars

\* uv__pipe_close has made both of its system calls on pipe p
Closed(p) == pipe[p].close_pc = Len(uv__pipe_close_steps)

\* the paths that hold a node pipe p created
NodesOf(p) == {path \in Names : fs[path].st = "ours" /\ fs[path].by = p}

\* the last uv_pipe_bind call bound pipe p
LastBound(p) == bind_log.p = p /\ bind_log.ret = 0

\* C9: once a pipe that was bound to a name has been closed, the node it
\* created is gone from the filesystem and the pipe owns no name.
C9_BindCloseUnlinks ==
  \A p \in Pipes :
    Closed(p) => (NodesOf(p) = {} /\ pipe[p].pipe_fname = NoName)

\* What does hold: a closed pipe owns no name, and a node it leaves behind
\* was asked for under a name that did not fit sun_path.
C9_ShortNamesUnlinked ==
  \A p \in Pipes :
    Closed(p) =>
      /\ pipe[p].pipe_fname = NoName
      /\ \A path \in NodesOf(p) : Len(fs[path].name) >= SunPathSize

C9_Witness ==
  \E p \in Pipes :
    /\ Closed(p) /\ LastBound(p)
    /\ Len(bind_log.name) < SunPathSize
    /\ fs[bind_log.name].st = "absent"

\* C10: uv__pipe_close unlinks the name while it still holds the descriptor,
\* and releases the descriptor only when no name is left; whatever the other
\* processes do in between, the unlink removes no node of theirs, only the
\* node the pipe itself created (or nothing).
C10_UnlinkBeforeRelease ==
  /\ [](\A p \in Pipes :
          (pipe[p].close_pc > 0 /\ pipe[p].fd = -1) => pipe[p].pipe_fname = NoName)
  /\ [][\A p \in Pipes :
          /\ (pipe[p].fd # -1 /\ pipe'[p].fd = -1) => pipe[p].pipe_fname = NoName
          /\ (pipe[p].pipe_fname # NoName /\ pipe'[p].pipe_fname = NoName) =>
                /\ pipe[p].fd # -1
                /\ fs[pipe[p].pipe_fname].st # "other"
                /\ fs[pipe[p].pipe_fname].st = "ours" => fs[pipe[p].pipe_fname].by = p]_vars

\* between the unlink and the release of the descriptor another process has
\* bound the name the pipe had
C10_Witness ==
  \E p \in Pipes :
    /\ LastBound(p)
    /\ Len(bind_log.name) < SunPathSize
    /\ pipe[p].close_pc = 1 /\ pipe[p].fd # -1 /\ pipe[p].pipe_fname = NoName
    /\ fs[bind_log.name].st = "other"

\* the race alone: no unlink of this process removes a node of another process
NoForeignUnlink ==
  [][\A p \in Pipes :
       (pipe[p].pipe_fname # NoName /\ pipe'[p].pipe_fname = NoName) =>
         fs[pipe[p].pipe_fname].st # "other"]_vars

\* a uv_pipe_bind(p, name) call, whatever its outcome
BindCall(p, name) ==
  \/ PipeBindInval(p, name)
  \/ \E err \in {-ENOMEM, -EMFILE} : PipeBindEarlyError(p, name, err)
  \/ \E e \in {EADDRINUSE, ENOENT, EACCES} : PipeBindFails(p, name, e)
  \/ PipeBindOk(p, name)

\* C11: uv_pipe_bind on a pipe that already has a descriptor returns -EINVAL and
\* changes neither the pipe (its name, its descriptor) nor the filesystem.
C11_BindAlreadyBound ==
  [][\A p \in Pipes, name \in Names :
       (BindCall(p, name) /\ pipe[p].fd >= 0) =>
          /\ bind_log'.ret = -EINVAL
          /\ pipe' = pipe
          /\ fs' = fs]_vars

C11_Witness ==
  /\ bind_log.p \in Pipes
  /\ bind_log.ret = -EINVAL
  /\ pipe[bind_log.p].pipe_fname # NoName
  /\ pipe[bind_log.p].pipe_fname # bind_log.name
  /\ fs[SunPath(bind_log.name)].st = "absent"

\* C12: uv_pipe_listen on a pipe without a descriptor returns -EINVAL, installs
\* no connection callback and starts no watcher: the pipe and its socket are
\* as before.
C12_ListenUnbound ==
  [][\A p \in Pipes :
       (PipeListen(p) /\ pipe[p].fd = -1) =>
          /\ plog'[p].listen_ret = -EINVAL
          /\ ~pipe'[p].connection_cb /\ pipe'[p].pevents = {}
          /\ pipe' = pipe /\ sock' = sock]_vars

C12_Witness ==
  \E p \in Pipes : /\ plog[p].listen_ret = -EINVAL /\ pipe[p].fd = -1
                   /\ ~pipe[p].connection_cb /\ "in" \notin pipe[p].pevents
                   /\ \E q \in Pipes : plog[q].listen_ret = 0 /\ pipe[q].connection_cb

\* C13: no uv_pipe_connect call runs the connect callback, however the connect
\* went; the callback runs in a later step of the loop, for a request that an
\* earlier uv_pipe_connect call left on the pipe.
C13_ConnectCbLater ==
  [][\A p \in Pipes :
       /\ (\E name \in ConnNames, oc \in ConnectOutcomes : PipeConnect(p, name, oc))
            => plog'[p].connect_cb = plog[p].connect_cb
       /\ plog'[p].connect_cb # plog[p].connect_cb
            => (pipe[p].connect_req /\ ~pipe'[p].connect_req)]_vars

C13_Witness ==
  /\ \E p \in Pipes : plog[p].connect_err = -ENOENT /\ plog[p].connect_cb = <<-ENOENT>>
  /\ \E p \in Pipes : sock[p].cstate = "connected" /\ plog[p].connect_cb = <<0>>

CbFds(p) ==
  LET ok(c) == c.status = 0
      s == SelectSeq(plog[p].conn_cb, ok)
  IN [i \in 1..Len(s) |-> s[i].fd]

\* C15: the connection callbacks with status 0 of a listening pipe were given,
\* one each and in this order, the descriptors accept returned for it.
C15_AcceptOrder ==
  \A p \in Pipes : CbFds(p) = plog[p].accepted

C15_Witness ==
  \E p \in Pipes :
    /\ Len(plog[p].accepted) = 2 /\ Len(plog[p].conn_cb) = 3
    /\ plog[p].conn_cb[2].status # 0
    /\ pipe[p].accepted_fd = plog[p].accepted[2]

\* slot d of the caller's stdio array is ignored or was not supplied
SlotIgnored(d) == UseFd(stdio.slots, d) < 0

\* C16: when the program starts, each of the child's descriptors 0, 1 and 2
\* whose slot is ignored or not supplied is open on /dev/null (NUL), whatever
\* the parent has open.
C16_StdioOnDevNull ==
  stdio.phase = "started" =>
    \A d \in {0, 1, 2} : SlotIgnored(d) => stdio.tab[d] = "devnull"

\* What does hold: the same on Windows, and on unix when the parent has its
\* descriptors 0, 1 and 2 open.
C16_WhenParentStdioOpen ==
  (stdio.phase = "started" /\ (platform = "win" \/ {0, 1, 2} \subseteq stdio.parent)) =>
    \A d \in {0, 1, 2} : SlotIgnored(d) => stdio.tab[d] = "devnull"

C16_Witness ==
  /\ platform = "unix" /\ stdio.phase = "started"
  /\ stdio_count_of(stdio.slots) = 0
  /\ {0, 1, 2} \subseteq stdio.parent
  /\ \A d \in {0, 1, 2} : stdio.tab[d] = "devnull"

\* C17: in non-verbatim mode the argv the child gets by splitting the command
\* line of make_program_args is the argument vector that was supplied.
C17_QuoteRoundTrip ==
  (cmd.phase = "parsed" /\ ~cmd.verbatim) => cmd.argv = cmd.args

\* What does hold: the round trip for argument vectors without an empty
\* argument.
C17_NonEmptyRoundTrip ==
  (cmd.phase = "parsed" /\ ~cmd.verbatim /\ \A k \in 1..Len(cmd.args) : cmd.args[k] # <<>>)
     => cmd.argv = cmd.args

C17_Witness ==
  /\ cmd.phase = "parsed" /\ ~cmd.verbatim
  /\ cmd.args = << <<"a">>, <<"a", "\\", "\"">>, <<" ", "\\">> >>
  /\ cmd.line = <<"a", " ", "\"", "a", "\\", "\\", "\\", "\"", "\"", " ", "\"", " ", "\\", "\\", "\"">>
  /\ cmd.argv = cmd.args

RECURSIVE SplitFrom(_, _, _, _)
\* the strings a reader of the block sees: up to the first empty string
SplitFrom(dst, i, cur, acc) ==
  IF i > Len(dst) THEN acc
  ELSE IF dst[i] # NUL THEN SplitFrom(dst, i + 1, Append(cur, dst[i]), acc)
  ELSE IF cur = <<>> THEN acc
  ELSE SplitFrom(dst, i + 1, <<>>, Append(acc, cur))

BlockStrings(dst) == SplitFrom(dst, 1, <<>>, <<>>)

\* the name of a NAME=VALUE entry, letter case folded
NameOf(entry) ==
  LET eq == IF \E k \in 1..Len(entry) : entry[k] = "="
            THEN CHOOSE k \in 1..Len(entry) :
                   entry[k] = "=" /\ \A j \in 1..(k - 1) : entry[j] # "="
            ELSE Len(entry) + 1
  IN [k \in 1..(eq - 1) |-> tolower(entry[k])]

\* the positions of the entries of a list that carry required name i
Named(entries, i) ==
  {j \in 1..Len(entries) : NameOf(entries[j]) = NameOf(required_vars[i])}

\* the block ends where its reader stops: at the first empty string, which is
\* the last character
EndsWithOneNul(dst) ==
  /\ Len(dst) >= 2
  /\ dst[Len(dst)] = NUL /\ dst[Len(dst) - 1] = NUL
  /\ dst[1] # NUL
  /\ \A k \in 2..(Len(dst) - 1) : ~(dst[k] = NUL /\ dst[k - 1] = NUL)

\* C18: in the block make_program_env builds every caller entry appears
\* unchanged; each of SYSTEMROOT, SYSTEMDRIVE and TEMP appears, with the
\* caller's entries only when the caller supplied the name in any letter case,
\* otherwise once with the calling process's value; one extra NUL ends it.
C18_EnvBlock ==
  envb.phase = "built" =>
    LET E == BlockStrings(envb.dst)
        n == Len(envb.env_block)
    IN /\ Len(E) >= n
       /\ \A k \in 1..n : E[k] = envb.env_block[k]
       /\ \A i \in 1..Len(required_vars) :
            IF Named(envb.env_block, i) # {}
            THEN Named(E, i) = Named(envb.env_block, i)
            ELSE \E j \in (n + 1)..Len(E) :
                   /\ Named(E, i) = {j}
                   /\ E[j] = required_vars[i] \o <<"=">> \o envb.procenv[i]
       /\ EndsWithOneNul(envb.dst)

\* a caller that gives TEMP in lower case and SystemRoot in mixed case: only
\* SYSTEMDRIVE is injected
C18_Witness ==
  /\ envb.phase = "built"
  /\ envb.env_block = << <<"t", "e", "m", "p", "=">>,
                         <<"S", "y", "s", "t", "e", "m", "R", "o", "o", "t", "=", "c">> >>
  /\ BlockStrings(envb.dst) =
       envb.env_block \o << <<"S", "Y", "S", "T", "E", "M", "D", "R", "I", "V", "E", "=", "w">> >>

\* the process object the handle of a successful Windows spawn refers to is
\* there, and GetExitCodeProcess on it gives what the child ended with
ProcessHandleOpen(h) ==
  LET ph == proc[h].process_handle IN
  /\ ph # INVALID
  /\ os[ph].h = h /\ os[ph].st # "free"
  /\ fate[h].kind = "exit" => GetExitCodeProcess(os, ph) = fate[h].val
  /\ fate[h].kind = "killed" => GetExitCodeProcess(os, ph) = 1

\* C19: on Windows the process handle of a successful spawn stays open, and the
\* exit code retrievable, after the child exited and after the exit callback
\* ran; it is closed only by the endgame of a handle the user closed.
C19_ProcessHandleKept ==
  /\ [](\A h \in Handles :
          (platform = "win" /\ sp[h].res = "ok" /\ ~proc[h].closed) => ProcessHandleOpen(h))
  /\ [][\A h \in Handles :
          (platform = "win" /\ sp[h].res = "ok" /\ ProcessHandleOpen(h) /\ ~ProcessHandleOpen(h)')
             => (proc[h].closing /\ <<"endgame", h>> \in posted /\ proc'[h].closed)]_vars

\* the child has exited, its exit callback has run and returned, the user has
\* closed the handle and the endgame has not run yet
C19_Witness ==
  \E h \in Handles :
    /\ platform = "win" /\ sp[h].res = "ok"
    /\ fate[h].kind = "exit" /\ cb[h].count = 1 /\ incb = 0
    /\ proc[h].closing /\ ~proc[h].closed
    /\ ProcessHandleOpen(h)

\* the queue handle h is linked into
QueueOf(h) == CHOOSE i \in 0..(H-1) : InSeq(process_handles[i], h)

\* h sits on the pending list of the uv__chld run in progress
InPending(h) == InSeq(chld.pending, h)

\* queue i has been polled by the uv__chld run in progress
Polled(i) == chld.phase = "run" /\ i <= chld.i

\* no terminated child is left behind: a queued handle whose child is waiting to
\* be reaped is in a queue the run in progress has yet to poll, or its child
\* ended after the poll and a further SIGCHLD is pending
NoneLeftBehind ==
  \A h \in Handles :
    (platform = "unix" /\ Queued(h) /\ os[proc[h].pid].st = "exited")
       => (sigchld \/ (chld.phase = "run" /\ ~Polled(QueueOf(h))))

\* what the poll reaped is off its queue, and a run returns only with the
\* pending list empty
PendingDrained ==
  /\ \A h \in Handles : InPending(h) => (chld.phase = "run" /\ ~Queued(h))
  /\ chld.phase = "idle" => chld.pending = <<>>

\* the step that takes h off the pending list stops it and invokes its exit
\* callback
StoppedAndCalled(h) ==
  /\ ~proc'[h].active
  /\ HasExitCb(proc[h]) => (cb'[h].count = cb[h].count + 1 /\ incb' = h)

\* C20 (as amended): a uv__chld run polls every handle of every queue, however
\* many children ended for the one signal: no queued handle in a polled queue
\* keeps a terminated child unless a further SIGCHLD is pending; each reaped
\* handle is off its queue, and is stopped and has its exit callback invoked
\* before the run returns, unless the user closes it from an exit callback of
\* that run first.
C20_ReaperDrains ==
  /\ [](NoneLeftBehind /\ PendingDrained)
  /\ [][\A h \in Handles :
          (InPending(h) /\ ~InPending(h)')
             => (StoppedAndCalled(h) \/ (incb # 0 /\ ~proc[h].closing /\ proc'[h].closing))]_vars

\* C20 as stated: every handle the poll reaped is stopped and has its exit
\* callback invoked in that run.
C20_Original ==
  /\ [](NoneLeftBehind /\ PendingDrained)
  /\ [][\A h \in Handles : (InPending(h) /\ ~InPending(h)') => StoppedAndCalled(h)]_vars

\* one run that reaped the children of two handles and has invoked both exit
\* callbacks
C20_Witness ==
  /\ platform = "unix" /\ chld.phase = "run" /\ chld.pending = <<>>
  /\ chld.i = H - 1
  /\ \A h \in Handles : sp[h].res = "ok" /\ cb[h].count = 1 /\ ~proc[h].active /\ ~proc[h].closing
  /\ ~sigchld

\* C21: no two process handles linked in the process queues carry the same pid.
C21_UniquePids ==
  \A h1, h2 \in Handles :
    (h1 # h2 /\ Queued(h1) /\ Queued(h2)) => proc[h1].pid # proc[h2].pid

\* two queued handles with distinct pids, the child of one reaped behind libuv
C21_Witness ==
  \E h1, h2 \in Handles :
    /\ h1 # h2 /\ Queued(h1) /\ Queued(h2) /\ proc[h1].pid # proc[h2].pid
    /\ os[proc[h1].pid].st = "free" /\ chld.phase = "idle"

\* C22: while a stashed accepted descriptor waits to be consumed the accept
\* watcher is stopped and no accept is performed on the pipe: the stashed
\* descriptor is not replaced by another one.
C22_StashNotOverwritten ==
  /\ [](\A p \in Pipes : pipe[p].accepted_fd # -1 => "in" \notin pipe[p].pevents)
  /\ [][\A p \in Pipes : pipe[p].accepted_fd # -1 =>
          /\ pipe'[p].accepted_fd \in {-1, pipe[p].accepted_fd}
          /\ plog'[p].accepted = plog[p].accepted]_vars

\* What does hold: the step in which the connection callback returns without
\* consuming the descriptor leaves the watcher stopped, and as long as it is
\* stopped nothing is accepted.
C22_StoppedUntilRestarted ==
  [][\A p \in Pipes :
       /\ (pipe[p].accepted_fd = -1 /\ pipe'[p].accepted_fd # -1)
             => "in" \notin pipe'[p].pevents
       /\ (pipe[p].accepted_fd # -1 /\ "in" \notin pipe[p].pevents)
             => plog'[p].accepted = plog[p].accepted]_vars

\* a descriptor is stashed and the watcher stopped while a further connection
\* waits in the backlog
C22_Witness ==
  \E p \in Pipes : /\ pipe[p].accepted_fd # -1 /\ "in" \notin pipe[p].pevents
                   /\ sock[p].backlog > 0

\* the descriptors accept has returned to this process
AcceptedFds == UNION {{plog[q].accepted[k] : k \in 1..Len(plog[q].accepted)} : q \in Pipes}

\* the roles a pipe is in: unbound (no descriptor), bound-server (owns a name),
\* connected-client (a connect was issued on its socket), accepted-server-side
\* (holds a descriptor accept returned)
RolesOf(p) ==
  (IF pipe[p].fd = -1 THEN {"unbound"} ELSE {})
  \cup (IF pipe[p].pipe_fname # NoName THEN {"bound-server"} ELSE {})
  \cup (IF sock[p].cstate \in {"inprogress", "connected"} THEN {"connected-client"} ELSE {})
  \cup (IF pipe[p].fd \in AcceptedFds THEN {"accepted-server-side"} ELSE {})

\* C23: in every reachable state a pipe is in at most one of the roles unbound,
\* bound-server, connected-client, accepted-server-side.
C23_OneRole ==
  \A p \in Pipes : Cardinality(RolesOf(p)) <= 1

\* each role is taken by some pipe
C23_Witness ==
  /\ \E p \in Pipes : RolesOf(p) = {"accepted-server-side"}
  /\ \E p \in Pipes : RolesOf(p) = {"bound-server"}

\* C24: after a successful uv_pipe_link the descriptor of each end is
\* non-blocking unless that end's pipe was initialised with SPAWN_SAFE, and
\* blocking if it was.
C24_NonblockUnlessSpawnSafe ==
  (lnk.phase = "linked" /\ lnk.ret = 0) =>
     /\ lnk.fds[1].nonblock <=> (BitAnd(lnk.rinit, UV_PIPE_SPAWN_SAFE) = 0)
     /\ lnk.fds[2].nonblock <=> (BitAnd(lnk.winit, UV_PIPE_SPAWN_SAFE) = 0)

\* a SPAWN_SAFE read end linked to a plain write end
C24_Witness ==
  /\ lnk.phase = "linked" /\ lnk.ret = 0
  /\ BitAnd(lnk.rinit, UV_PIPE_SPAWN_SAFE) # 0 /\ BitAnd(lnk.winit, UV_PIPE_SPAWN_SAFE) = 0
  /\ lnk.fds[2].nonblock

\* C25: when adopting the write end fails after the read end was adopted, the
\* read pipe is closed before uv_pipe_link returns the error: it holds no
\* descriptor, is marked closed, no close callback is pending or was called,
\* and neither descriptor of the pair is open.
C25_ReadClosedOnFailure ==
  (lnk.phase = "linked" /\ lnk.failed = "open_write") =>
     /\ lnk.ret = -1
     /\ lnk.read.fd = -1 /\ lnk.write.fd = -1
     /\ BitAnd(lnk.read.flags, UV_CLOSED) # 0
     /\ ~lnk.read.close_cb /\ lnk.close_cb_calls = 0
     /\ ~lnk.fds[1].open /\ ~lnk.fds[2].open

\* the read pipe came with a close callback set, a SOCK_NONBLOCK pair was made
\* and the second adoption failed
C25_Witness ==
  /\ lnk.phase = "linked" /\ lnk.failed = "open_write"
  /\ lnk.ebadf = 1 /\ BitAnd(lnk.rinit, UV_PIPE_IPC) # 0
  /\ lnk.read.fd = -1 /\ ~lnk.fds[1].open /\ ~lnk.fds[2].open
  /\ BitAnd(lnk.read.flags, UV_CLOSING) # 0

\* slot i of the plan names a source descriptor that is open in the parent
SlotHasSource(i) ==
  /\ i \in DOMAIN stdio.slots
  /\ stdio.slots[i] >= 0
  /\ stdio.slots[i] \in stdio.parent

\* C26: after uv__process_child_init, for every slot i whose plan names a
\* source descriptor s_i >= 0, the child's descriptor i refers to the open file
\* that s_i referred to in the parent when uv_spawn was called, whatever the
\* assignment of sources to slots.
C26_SlotsGetTheirSources ==
  (platform = "unix" /\ stdio.phase = "started") =>
    \A i \in Descs : SlotHasSource(i) =>
       stdio.tab[i] = "parent" /\ stdio.file[i] = stdio.slots[i]

\* slots 0 and 1 swap the parent's descriptors 1 and 0, and the program started
C26_Witness ==
  /\ platform = "unix" /\ stdio.phase = "started"
  /\ stdio_count_of(stdio.slots) >= 2
  /\ stdio.slots[0] = 1 /\ stdio.slots[1] = 0
  /\ {0, 1} \subseteq stdio.parent

\* C27: POSIX uv_spawn blocks all signals in the parent before forking, the
\* child restores the mask the parent had on entry, and when uv_spawn returns,
\* on success and on every error path, the parent's mask is the mask it had on
\* entry.
C27_MaskRestored ==
  /\ fk.pc \in {"locked", "forked"} => fk.mask = AllSignals \ {SIGKILL}
  /\ fk.child = "born" => fk.child_mask = AllSignals \ {SIGKILL}
  /\ fk.child \in {"exec", "exit"} => fk.child_mask = fk.entry
  /\ fk.pc = "returned" => fk.mask = fk.entry

\* a caller with some but not all signals blocked got its child started, and
\* uv_spawn has returned
C27_Witness ==
  /\ fk.pc = "returned" /\ fk.ret = 0 /\ fk.child = "exec"
  /\ fk.entry = {SIGINT}
  /\ fk.mask = {SIGINT} /\ fk.child_mask = {SIGINT}

\* C28: uv_spawn holds the loop's cloexec write lock from before fork/vfork
\* until the parent runs again after it; no worker thread is creating a
\* descriptor under the read lock while the fork takes place, and no descriptor
\* created under the read lock is inherited by the child without FD_CLOEXEC.
C28_ForkUnderWriteLock ==
  /\ fk.pc \in {"locked", "forked"} => fk.wrlock
  /\ fk.wrlock => \A w \in Workers : fk.wk[w] = "idle"
  /\ ~fk.during
  /\ fk.child_fds = {}

\* the fork happened while a worker's descriptor existed, and another worker is
\* waiting for the read lock
C28_Witness ==
  /\ fk.pc = "forked" /\ fk.child = "born"
  /\ \E w \in Workers : fk.wfd[w] = "cloexec"
  /\ \E w \in Workers : fk.wfd[w] = "none" /\ fk.wk[w] = "idle"

\* what is under way for handle h between uv_close and the close callback: the
\* close wait is registered, the close request is posted, the endgame is queued
CloseTokens(h) ==
  {x \in {<<"close_wait", h>>} : x \in pool}
    \cup {x \in {<<"close", h>>, <<"endgame", h>>} : x \in posted}

\* C29: on Windows, once close is requested the close callback is delivered
\* exactly once and only by the endgame: with a wait registered the endgame is
\* queued only after the wait was unregistered and close_req was posted and
\* handled, with none it is queued at once; and when the close callback is
\* notified the endgame has closed the process handle and freed the child stdio
\* buffer.
C29_CloseCallbackOnce ==
  /\ [](\A h \in Handles : platform = "win" =>
          /\ ~proc[h].closing => (~proc[h].closed /\ CloseTokens(h) = {})
          /\ (proc[h].closing /\ ~proc[h].closed) => Cardinality(CloseTokens(h)) = 1
          /\ proc[h].closed =>
               /\ proc[h].closing /\ CloseTokens(h) = {}
               /\ ~proc[h].handle_open /\ proc[h].child_stdio_buffer # "open")
  /\ [][\A h \in Handles : platform = "win" =>
          /\ proc[h].closed => proc'[h].closed
          /\ (~proc[h].closed /\ proc'[h].closed) =>
               (<<"endgame", h>> \in posted /\ <<"endgame", h>> \notin posted')
          /\ (~proc[h].closing /\ proc'[h].closing) =>
               IF proc[h].wait_handle # "invalid"
               THEN <<"close_wait", h>> \in pool' /\ <<"exit_wait", h>> \notin pool'
               ELSE <<"endgame", h>> \in posted'
          /\ (<<"endgame", h>> \notin posted /\ <<"endgame", h>> \in posted' /\ proc[h].closing) =>
               (<<"close", h>> \in posted /\ <<"close", h>> \notin posted')
          /\ (<<"close", h>> \notin posted /\ <<"close", h>> \in posted') =>
               (<<"close_wait", h>> \in pool /\ <<"close_wait", h>> \notin pool')]_vars

\* one handle was closed with its exit wait registered, the other after
\* CreateProcessW failed, with no wait; both close callbacks have been called
C29_Witness ==
  /\ platform = "win"
  /\ \E h \in Handles : sp[h].res = "ok" /\ proc[h].closed /\ fate[h].kind = "none"
  /\ \E h \in Handles : sp[h].res = "execfail" /\ proc[h].closed
                          /\ proc[h].child_stdio_buffer = "freed"

\* a thread-pool callback of handle h runs in this step: its job leaves the pool
\* and a request of h arrives at the completion port
PoolCallbackRuns(h, job, req) ==
  /\ <<job, h>> \in pool /\ <<job, h>> \notin pool'
  /\ <<req, h>> \notin posted /\ <<req, h>> \in posted'

\* C30: the thread-pool callbacks exit_wait_callback, close_wait_callback and
\* spawn_failure only post a request to the loop's completion port: they write
\* no process handle state, and what they read of it the loop thread has not
\* changed since the job was queued.
C30_PoolOnlyPosts ==
  [][\A h \in Handles :
       /\ (\/ PoolCallbackRuns(h, "exit_wait", "exit")
           \/ PoolCallbackRuns(h, "close_wait", "close")
           \/ PoolCallbackRuns(h, "spawn_failure", "exit")) => proc' = proc
       /\ PoolCallbackRuns(h, "spawn_failure", "exit") =>
            (proc[h].child_stdio_buffer = "open" /\ ~proc[h].closed)]_vars

\* spawn_failure is still queued for a handle whose endgame has run
C30_Witness ==
  \E h \in Handles :
    /\ platform = "win" /\ <<"spawn_failure", h>> \in pool
    /\ proc[h].closed /\ proc[h].child_stdio_buffer = "freed"


RECURSIVE SplitAtSemicolons(_)
\* the entries the separators cut a PATH value into, in order
SplitAtSemicolons(path) ==
  LET e == NextSemicolon(path, 1)
  IN IF e > Len(path) THEN <<path>>
     ELSE <<SubSeq(path, 1, e - 1)>> \o SplitAtSemicolons(SubSeq(path, e + 1, Len(path)))

\* the names tried in one directory: the literal name when it has an extension,
\* name.com, name.exe
NamesInDir(dir, name) ==
  LET exts == ExtsTried(name_has_ext(name))
  IN [k \in 1..Len(exts) |-> JoinName(dir, name, exts[k], SearchCwd)]

RECURSIVE NamesInDirs(_, _)
NamesInDirs(dirs, name) ==
  IF dirs = <<>> THEN <<>>
  ELSE NamesInDir(Head(dirs), name) \o NamesInDirs(Tail(dirs), name)

\* the fixed sequence of candidates for a file and a PATH
Candidates(file, path) ==
  LET start == file_name_start(file)
      name == SubSeq(file, start, Len(file))
      entries == SelectSeq(SplitAtSemicolons(path), LAMBDA e : e # <<>>)
  IN IF file = <<>> \/ file = <<".">> THEN <<>>
     ELSE IF start # 1 THEN NamesInDir(SubSeq(file, 1, start - 1), name)
     ELSE NamesInDir(<<>>, file) \o NamesInDirs(entries, file)

\* the first candidate that exists, <<>> if none does
FirstAcceptable(cands, exists) ==
  LET hits == {k \in 1..Len(cands) : cands[k] \in exists}
  IN IF hits = {} THEN <<>> ELSE cands[CHOOSE k \in hits : \A j \in hits : k <= j]

\* C31: the executable search returns the first acceptable candidate of the
\* fixed sequence: nothing for an empty file or "."; only the file's own
\* directory when it has one; otherwise the current directory, then the PATH
\* entries in order; in each directory the literal name (when it has an
\* extension), then name.com, then name.exe.
C31_FirstAcceptableCandidate ==
  srch.phase # "idle" =>
    /\ srch.phase \in {"done", "create", "as_given"}
    /\ srch.out.result = FirstAcceptable(Candidates(srch.file, srch.path), srch.exists)

\* the same for a PATH value that does not begin with a separator
C31_WhenPathStartsWithEntry ==
  (srch.phase # "idle" /\ CharAt(srch.path, 1) # ";") =>
    /\ srch.phase \in {"done", "create", "as_given"}
    /\ srch.out.result = FirstAcceptable(Candidates(srch.file, srch.path), srch.exists)

\* a name with an extension exists in a PATH directory both as it is and with
\* .com appended, and not in the current directory: the literal name was found
C31_Witness ==
  /\ srch.phase = "create"
  /\ srch.file = <<"n", ".", "n">> /\ srch.path = <<"d">>
  /\ Len(srch.out.dirs) = 1
  /\ Cardinality(srch.exists) = 2
  /\ JoinName(<<"d">>, srch.file, <<"c", "o", "m">>, SearchCwd) \in srch.exists
  /\ srch.out.result = JoinName(<<"d">>, srch.file, <<>>, SearchCwd)


\* the slice [dir_start, dir_end) of PATH is wrapped in a matched pair of quotes
MatchedPair(path, d) ==
  /\ d.dir_end - d.dir_start >= 2
  /\ IsQuote(path[d.dir_start])
  /\ path[d.dir_end - 1] = path[d.dir_start]

\* C32: for each PATH entry the search removes one leading and one trailing
\* quote character only when they are a matched pair of " or ', it skips empty
\* entries, and the directory it passes on has a non-negative length and lies
\* inside the entry, also for an entry that is a single quote character.
C32_EntryTrimmed ==
  srch.phase # "idle" =>
    /\ srch.phase # "hung"
    /\ \A k \in 1..Len(srch.out.dirs) :
         LET d == srch.out.dirs[k] IN
         /\ d.dir_end > d.dir_start
         /\ d.dir_len >= 0
         /\ d.dir_path >= d.dir_start /\ d.dir_path + d.dir_len <= d.dir_end
         /\ IF MatchedPair(srch.path, d)
            THEN d.dir_path = d.dir_start + 1 /\ d.dir_len = d.dir_end - d.dir_start - 2
            ELSE d.dir_path = d.dir_start /\ d.dir_len = d.dir_end - d.dir_start

\* the PATH "d" in double quotes: the directory d was searched and the file
\* found in it
C32_Witness ==
  /\ srch.phase = "create"
  /\ srch.path = <<"\"", "d", "\"">>
  /\ Len(srch.out.dirs) = 1
  /\ srch.out.dirs[1].dir_path = 2 /\ srch.out.dirs[1].dir_len = 1


\* the process handles of the loop that were handed to uv_spawn and have not
\* been closed
Outstanding == {h \in Handles : proc[h].init /\ ~proc[h].closing}

\* C33: a loop has one SIGCHLD watcher, started by the first spawn and shared
\* by the later ones; it is reference-counted by the outstanding process
\* handles and stopped when the last process handle of the loop is closed.
C33_WatcherRefCounted ==
  platform = "unix" =>
    /\ (\E h \in Outstanding : sp[h].res = "ok") => child_watcher
    /\ Outstanding = {} => ~child_watcher

\* two children were spawned on one loop and both handles have been closed
C33_Witness ==
  /\ platform = "unix"
  /\ \A h \in Handles : sp[h].res = "ok" /\ proc[h].closing


\* C34: once close has been requested on a process handle its exit callback is
\* not invoked any more: on POSIX the handle is in no queue and not on the
\* pending list of a reaper run, also when it was closed from another handle's
\* exit callback during that run; on Windows an exit request handled after the
\* close is dropped.
C34_NoExitCbAfterClose ==
  /\ [](\A h \in Handles :
          (platform = "unix" /\ proc[h].closing) => (~Queued(h) /\ ~InPending(h)))
  /\ [][\A h \in Handles : proc[h].closing => cb'[h].count = cb[h].count]_vars

\* a reaper run found two ended children; the exit callback of the first is
\* running and has closed the second handle, which was waiting on the pending
\* list with an exit callback of its own
C34_Witness ==
  \E h1, h2 \in Handles :
    /\ platform = "unix" /\ h1 # h2
    /\ chld.phase = "run" /\ incb = h1
    /\ proc[h2].closing /\ proc[h2].exit_cb /\ cb[h2].count = 0
    /\ sp[h2].res = "ok" /\ os[proc[h2].pid].st = "free"
    /\ proc[h1].pid % H = proc[h2].pid % H


\* C35 as stated: on POSIX, wherever user code can run on the loop thread, a
\* process handle is linked into a loop process queue exactly when it is
\* active, and that queue is the one indexed by its pid mod H.
C35_Original ==
  (platform = "unix" /\ UserCanRun) =>
    \A h \in Handles :
      /\ Queued(h) <=> proc[h].active
      /\ Queued(h) => QueueOf(h) = uv__process_queue(proc[h].pid)

\* C35: on POSIX, wherever user code can run on the loop thread, a process
\* handle is active exactly when it is linked into a loop process queue or
\* waits on the pending list of the running reaper, never both; a handle in a
\* loop queue is in the one indexed by its pid mod H, and a handle on the
\* pending list came from the queue the reaper is draining.
C35_QueuedOrPendingIffActive ==
  (platform = "unix" /\ UserCanRun) =>
    \A h \in Handles :
      /\ proc[h].active <=> (Queued(h) \/ InPending(h))
      /\ ~(Queued(h) /\ InPending(h))
      /\ Queued(h) => QueueOf(h) = uv__process_queue(proc[h].pid)
      /\ InPending(h) => chld.i = uv__process_queue(proc[h].pid)

\* the exit callback of one handle is running while a second handle, whose
\* child the same reaper run has collected, is still active on the pending list
C35_Witness ==
  \E h1, h2 \in Handles :
    /\ platform = "unix" /\ h1 # h2
    /\ incb = h1 /\ ~proc[h1].active /\ ~Queued(h1)
    /\ InPending(h2) /\ proc[h2].active /\ ~Queued(h2)


RECURSIVE RingWalk(_, _, _, _)
\* the nodes met following next from x until hd, giving up after n nodes
RingWalk(hd, x, n, acc) ==
  IF x = hd THEN [closed |-> TRUE, nodes |-> acc]
  ELSE IF n = 0 \/ x \notin QNodes THEN [closed |-> FALSE, nodes |-> acc]
  ELSE RingWalk(hd, rq.next[x], n - 1, acc \cup {x})

\* the list at hd is a well-formed circular list of live process handles:
\* next leads back to hd, prev is the inverse of next all the way round, and
\* every node on it is the queue node of a handle that was not closed
WellFormedList(hd) ==
  /\ rq.next[hd] \in QNodes
  /\ LET w == RingWalk(hd, rq.next[hd], NumNodes, {}) IN
     /\ w.closed
     /\ \A x \in w.nodes \cup {hd} : rq.prev[rq.next[x]] = x
     /\ \A x \in w.nodes : x \in QHandles /\ ~rq.closing[x]

\* the handles on the list at hd
ListMembers(hd) == RingWalk(hd, rq.next[hd], NumNodes, {}).nodes

\* C36: whatever exit callbacks do during a SIGCHLD reaper run (close their own
\* handle, close another handle that is queued or on the pending list, spawn),
\* every process queue and the pending list stay well-formed circular lists,
\* the node the reaper turns to next is a linked, live process handle, and the
\* run terminates.
C36_ReaperSurvivesCallbacks ==
  /\ [](platform = "unix" =>
          /\ rq.pc # "wild"
          /\ \A i \in 0..(H-1) : WellFormedList(QueueHead(i))
          /\ rq.pc # "idle" => WellFormedList(PendingHead)
          /\ (rq.pc = "scan" /\ rq.q # QueueHead(rq.i)) =>
                rq.q \in ListMembers(QueueHead(rq.i))
          /\ rq.pc = "drain" =>
                \A x \in ListMembers(PendingHead) : rq.st[x] = "reaped" /\ rq.cbs[x] = 0)
  /\ (rq.pc # "idle") ~> (rq.pc = "idle")

\* inside one exit callback the handle closed itself, closed the other reaped
\* handle that was waiting on the pending list, and spawned a third process
C36_Witness ==
  \E h1, h2, h3 \in QHandles :
    /\ platform = "unix" /\ rq.pc = "cb" /\ rq.incb = h1
    /\ rq.closing[h1]
    /\ h2 # h1 /\ rq.st[h2] = "reaped" /\ rq.closing[h2]
    /\ rq.exit_cb[h2] /\ rq.cbs[h2] = 0
    /\ rq.spawned_in_cb[h3] /\ h3 \in ListMembers(QueueHead(rq.i))


\* C37: on Windows, for a handle whose CreateProcessW failed, while the
\* spawn_failure work item is queued or running the endgame has neither freed
\* the child stdio buffer nor marked the handle closed, and no exit request is
\* left for the loop to handle once the handle is closed.
C37_EndgameWaitsForWorker ==
  \A h \in Handles :
    (platform = "win" /\ sp[h].res = "execfail") =>
      /\ <<"spawn_failure", h>> \in pool =>
           (proc[h].child_stdio_buffer = "open" /\ ~proc[h].closed)
      /\ <<"exit", h>> \in posted => ~proc[h].closed


\* C38: on every failure path of uv_pipe_link each descriptor of the pair it
\* created is closed exactly once when it returns: none is left open, and no
\* close was made on a descriptor that had already been released.
C38_PairClosedExactlyOnce ==
  (lnk.phase = "linked" /\ lnk.ret # 0) =>
     /\ ~lnk.fds[1].open /\ ~lnk.fds[2].open
     /\ lnk.ebadf = 0


\* C39: on every return path of POSIX uv_spawn, a failed fork or vfork
\* included, the calling thread does not hold the cloexec write lock and its
\* cancellation state is the one it had on entry.
C39_ThreadStateRestored ==
  fk.pc = "returned" =>
     /\ ~fk.wrlock
     /\ fk.cancel = fk.entry_cancel


\* C40: when a stdio container resolves to descriptor -1 in POSIX uv_spawn,
\* the call returns the error without forking, the handle stays inactive and
\* in no queue, and the clean-up reads only entries of the caller's stdio array
\* with an index below options->stdio_count, also when that count is below 3.
C40_StdioFailureCleanup ==
  (platform = "unix" /\ sio.failed = "stdio") =>
     /\ sio.pc # "crashed"
     /\ ~sio.forked /\ ~sio.active /\ ~sio.queued
     /\ sio.pc = "returned" => sio.ret = -1
     /\ \A i \in sio.reads : i < stdio_count_of(sio.options)
====
